---- MODULE Spec2Model ----
(***************************************************************************)
(* PrintLink: a print-job marketplace UI over a real-time document store.  *)
(*                                                                         *)
(* Two variants of the application are modelled:                           *)
(*   - the job queue of src/PrintLink.jsx (RequestForm, RequestList, App); *)
(*   - the marketplace of src/unnamed/part_000 (PrintRequestForm,          *)
(*     MakerOfferForm, ...).                                               *)
(* Each browser session is a client; the document store is the only state  *)
(* the clients share.  An async handler is split at its await: the part up *)
(* to the store call is one action, the settling of the call another.      *)
(***************************************************************************)
EXTENDS Integers, Sequences, FiniteSets, TLC

(* ------------------------------ bounds -------------------------------- *)

\* Documents a collection may hold.
MaxRequests == 2
\* Requests queued when the makers of the job queue start work.
MaxQueued == 1
\* updateDoc calls that may be outstanding at once.
MaxInFlight == 2
\* Last tick of the server clock.
MaxTime == 1
MaxOffers == 2
MaxJobs == 2
\* Last tick at which a request of a listed collection was created.
MaxStamp == 3

(* ----------------------------- constants ------------------------------ *)

NULL == "null"

\* null, where a document id may stand (ids count from 1).
NoRequest == 0

\* The identities the identity provider hands out, one per browser session.
Users == {"u1", "u2"}

\* The placeholder serverTimestamp() puts in a document; the store replaces
\* it by its clock when it commits the write.
serverTimestamp == -1

\* The fields the code fills with serverTimestamp().
TimestampFields == {"createdAt", "updatedAt", "timestamp"}

\* Server clock ticks per second: a Timestamp is finer than the second that
\* toLocaleString() prints.
TicksPerSecond == 2

STATUS_OPTIONS == <<"Pending", "In Progress", "Complete">>

\* What the two inputs of RequestForm may hold.
TitleInputs == {"", "Report"}
PagesInputs == {"", "5"}

(* ------------------------------ helpers ------------------------------- *)

\* Object spread {...a, ...b}, and updateDoc's merge of partial fields.
Merge(a, b) ==
    [f \in (DOMAIN a) \cup (DOMAIN b) |-> IF f \in DOMAIN b THEN b[f] ELSE a[f]]

\* The store commits a write: every serverTimestamp() placeholder becomes the
\* server's clock.
Commit(data, clock) ==
    [f \in DOMAIN data |->
        IF f \in TimestampFields /\ data[f] = serverTimestamp THEN clock ELSE data[f]]

\* s without its k-th element.
RemoveAt(s, k) == [i \in 1..(Len(s) - 1) |-> IF i < k THEN s[i] ELSE s[i + 1]]

\* The first index at which x stands in s.
IndexOf(s, x) == CHOOSE i \in 1..Len(s) : s[i] = x /\ \A j \in 1..(i - 1) : s[j] # x

\* A listener onSnapshot has registered: the client, the component that holds
\* it ("queue" for RequestList, "requester" for RequesterRequestsList, "maker"
\* for MakerDashboard) and the userId its effect ran with.
Listener(c, view, uid) == [client |-> c, view |-> view, uid |-> uid]

\* An effect without its guard: the listener is registered for any userId.
EffectBody_unguarded(ls, c, view, uid) == Append(ls, Listener(c, view, uid))

\* The guard of a list's effect and its body: with db and userId set, a
\* listener is registered.
EffectBody(ls, c, view, uid) ==
    IF uid = NULL THEN ls ELSE Append(ls, Listener(c, view, uid))

\* The cleanup of a list's effect, () => unsubscribe(): there is one only if
\* the effect it belongs to registered a listener.
EffectCleanup(ls, c, view, uid) ==
    IF \E i \in 1..Len(ls) : ls[i] = Listener(c, view, uid)
    THEN RemoveAt(ls, IndexOf(ls, Listener(c, view, uid)))
    ELSE ls

\* parseInt(pages) || 0
ParseInt(str) ==
    CASE str = "5" -> 5
      [] str = "0" -> 0
      [] OTHER -> 0

(* ------------------------------- state -------------------------------- *)

VARIABLES
    app,                \* the variant the clients run: "PrintLink.jsx" or "part_000"
    now,                \* the store's clock
    userId,             \* App / useFirebase: userId of each client (NULL: none)
    auth,               \* App / useFirebase: isAuthReady of each client, and its
                        \* session at the identity provider
    \* --- src/PrintLink.jsx
    printlink_requests, \* collection of the job queue: document id = index
    title,              \* RequestForm: title input
    pages,              \* RequestForm: pages input
    isSaving,           \* RequestForm: isSaving
    addDocCalls,        \* RequestForm: addDoc calls awaiting the store
    requests,           \* RequestList: requests (the view)
    loading,            \* RequestList: loading
    updateDocCalls,     \* RequestList: updateDoc calls awaiting the store
    alertMsg,           \* the last alert() shown
    \* --- src/unnamed/part_000
    printRequests,      \* collection of the marketplace: document id = index
    offers,             \* offers[id]: sub-collection printRequests/id/offers
    formData,           \* PrintRequestForm: formData
    statusMessage,      \* PrintRequestForm: statusMessage
    isSubmitting,       \* PrintRequestForm: isSubmitting
    requestCalls,       \* PrintRequestForm: addDoc calls awaiting the store
    lastRequestSubmitted, \* App: lastRequestSubmitted
    makerRequests,      \* MakerDashboard: requests (the view)
    makerLoading,       \* MakerDashboard: loading
    offersMade,         \* MakerDashboard: offersMade
    offerForm,          \* MakerOfferForm: state of each mounted form, by request id
    offerCalls,         \* MakerOfferForm: addDoc calls awaiting the store
    viewMode,           \* App: viewMode
    requesterRequests,  \* RequesterRequestsList: requests (the view)
    requesterLoading,   \* RequesterRequestsList: loading
    snapshotJobs,       \* RequesterRequestsList: onSnapshot callbacks at an await
    \* --- both
    listeners           \* the live onSnapshot listeners on a request collection

queueVars == <<printlink_requests, title, pages, isSaving, addDocCalls,
               requests, loading, updateDocCalls, alertMsg>>

requestVars == <<formData, statusMessage, isSubmitting, requestCalls,
                 lastRequestSubmitted>>

makerVars == <<makerRequests, makerLoading, offersMade, offerForm, offerCalls>>

requesterVars == <<requesterRequests, requesterLoading, snapshotJobs>>

marketVars == <<printRequests, offers, viewMode, requestVars, makerVars, requesterVars>>

vars == <<app, now, userId, auth, listeners, queueVars, marketVars>>

\* The session after an onAuthStateChanged callback that has run to its end
\* for this user: setIsAuthReady(true) was its last statement.
Delivered(session, user) ==
    [session EXCEPT !.isAuthReady = TRUE, !.delivered = TRUE,
                    !.currentUser = user, !.pending = FALSE]

\* isAuthReady of a client's App.
isAuthReady(c) == auth[c].isAuthReady

\* The client's component of that kind holds a live listener.
Listening(c, view) ==
    \E i \in 1..Len(listeners) : listeners[i].client = c /\ listeners[i].view = view

formVars == <<title, pages, isSaving, addDocCalls>>
listVars == <<requests, loading, updateDocCalls>>

(* ----------------------- App (src/PrintLink.jsx) ----------------------- *)

\* onAuthStateChanged callback: the provider reports a user, or none, and
\* setIsAuthReady(true).
\* RequestList's effect depends on userId: its cleanup and its body run again.
AuthStateChanged(c, user) ==
    /\ userId' = [userId EXCEPT ![c] = user]
    /\ IF user = userId[c]
       THEN UNCHANGED <<listeners, loading>>
       ELSE /\ listeners' = EffectBody(EffectCleanup(listeners, c, "queue", userId[c]),
                                       c, "queue", user)
            /\ loading' = IF user = NULL THEN loading ELSE [loading EXCEPT ![c] = TRUE]
    /\ auth' = [auth EXCEPT ![c] = Delivered(@, user)]
    /\ UNCHANGED <<app, marketVars, now, printlink_requests, formVars, requests,
                   updateDocCalls, alertMsg>>

(* -------------------- RequestForm (src/PrintLink.jsx) ------------------ *)

setTitle(c, v) ==
    /\ title' = [title EXCEPT ![c] = v]
    /\ UNCHANGED <<app, auth, marketVars, listeners, now, printlink_requests, userId, pages, isSaving, addDocCalls,
                   listVars, alertMsg>>

setPages(c, v) ==
    /\ pages' = [pages EXCEPT ![c] = v]
    /\ UNCHANGED <<app, auth, marketVars, listeners, now, printlink_requests, userId, title, isSaving, addDocCalls,
                   listVars, alertMsg>>

\* disabled={!title || !pages || isSaving || !userId}
SubmitDisabled(c) ==
    title[c] = "" \/ pages[c] = "" \/ isSaving[c] \/ userId[c] = NULL

\* The document handleSubmit hands to addDoc.
RequestDoc(c) ==
    [requesterId |-> userId[c],
     title       |-> title[c],
     pages       |-> ParseInt(pages[c]),
     status      |-> "Pending",
     createdAt   |-> serverTimestamp]

\* handleSubmit up to its await: the guard, setIsSaving(true), the addDoc call.
\* The form's submit event needs its submit button enabled.
RequestForm_handleSubmit(c) ==
    /\ ~SubmitDisabled(c)
    /\ IF title[c] = "" \/ pages[c] = "" \/ userId[c] = NULL \/ isSaving[c]
       THEN UNCHANGED <<isSaving, addDocCalls>>
       ELSE /\ isSaving' = [isSaving EXCEPT ![c] = TRUE]
            /\ addDocCalls' = Append(addDocCalls, [client |-> c, data |-> RequestDoc(c)])
    /\ UNCHANGED <<app, auth, marketVars, listeners, now, printlink_requests, userId, title, pages, listVars, alertMsg>>

\* addDoc resolves: the store has committed the document; the form is cleared.
addDocResolved(k) ==
    /\ k \in 1..Len(addDocCalls)
    /\ Len(printlink_requests) < MaxRequests
    /\ LET call == addDocCalls[k]
       IN  /\ printlink_requests' = Append(printlink_requests, Commit(call.data, now))
           /\ title' = [title EXCEPT ![call.client] = ""]
           /\ pages' = [pages EXCEPT ![call.client] = ""]
           /\ isSaving' = [isSaving EXCEPT ![call.client] = FALSE]
    /\ addDocCalls' = RemoveAt(addDocCalls, k)
    /\ UNCHANGED <<app, auth, marketVars, listeners, now, userId, listVars, alertMsg>>

\* addDoc rejects: the error is alerted, the inputs are kept.
addDocRejected(k) ==
    /\ k \in 1..Len(addDocCalls)
    /\ alertMsg' = <<addDocCalls[k].client, "Failed to submit request">>
    /\ isSaving' = [isSaving EXCEPT ![addDocCalls[k].client] = FALSE]
    /\ addDocCalls' = RemoveAt(addDocCalls, k)
    /\ UNCHANGED <<app, auth, marketVars, listeners, now, printlink_requests, userId, title, pages, listVars>>

(* -------------------- RequestList (src/PrintLink.jsx) ------------------ *)

\* data.createdAt.toDate().toLocaleString(): the time to the second.
ToLocaleString(ts) == ts \div TicksPerSecond

\* new Date(createdAtStr), in milliseconds.
NewDate(str) == str * 1000

SortKey(req) == NewDate(req.createdAt)

\* fetchedRequests.sort((a, b) => new Date(b.createdAt) - new Date(a.createdAt)):
\* Array.prototype.sort is stable; descending by SortKey.
RECURSIVE InsertDesc(_, _)
InsertDesc(sorted, x) ==
    IF sorted = <<>> THEN <<x>>
    ELSE IF SortKey(Head(sorted)) >= SortKey(x)
         THEN <<Head(sorted)>> \o InsertDesc(Tail(sorted), x)
         ELSE <<x>> \o sorted

RECURSIVE SortDesc(_)
SortDesc(s) ==
    IF s = <<>> THEN <<>>
    ELSE InsertDesc(SortDesc(SubSeq(s, 1, Len(s) - 1)), s[Len(s)])

\* snapshot.docs.map(...): the view's entry for document id.
ViewEntry(id) ==
    Merge(Merge([id |-> id], printlink_requests[id]),
          [createdAt |-> ToLocaleString(printlink_requests[id].createdAt)])

\* The onSnapshot callback of the list's effect, run for a live listener.
Snapshot(c) ==
    /\ Listening(c, "queue")
    /\ requests' = [requests EXCEPT ![c] =
          SortDesc([id \in 1..Len(printlink_requests) |-> ViewEntry(id)])]
    /\ loading' = [loading EXCEPT ![c] = FALSE]
    /\ UNCHANGED <<app, auth, marketVars, listeners, now, printlink_requests, userId, formVars, updateDocCalls, alertMsg>>

\* isActionable: the button is rendered for these entries only.
isActionable(req) == req.status = "Pending" \/ req.status = "In Progress"

\* An update that leaves out who made it.
StatusUpdate_unsigned(c, nextStatus) ==
    [status |-> nextStatus, updatedAt |-> serverTimestamp]

\* An update that also signs the request over to the maker.
StatusUpdate_takesOver(c, nextStatus) ==
    [status |-> nextStatus, makerId |-> userId[c], updatedAt |-> serverTimestamp,
     requesterId |-> userId[c]]

\* The fields handleUpdateStatus hands to updateDoc.
StatusUpdate(c, nextStatus) ==
    [status |-> nextStatus, makerId |-> userId[c], updatedAt |-> serverTimestamp]

\* A handler that skips the final "else return" of the if-chain below.
nextStatus_noReturn(currentStatus) ==
    IF currentStatus = "Pending" THEN "In Progress" ELSE "Complete"

\* The if-chain of handleUpdateStatus that picks nextStatus; NULL where the
\* handler returns.
nextStatus(currentStatus) ==
    IF currentStatus = "Pending" THEN "In Progress"
    ELSE IF currentStatus = "In Progress" THEN "Complete"
    ELSE NULL

\* handleUpdateStatus(requestId, currentStatus) up to its await.
handleUpdateStatus(c, requestId, currentStatus) ==
    /\ IF userId[c] = NULL
       THEN UNCHANGED updateDocCalls
       ELSE IF nextStatus(currentStatus) = NULL
       THEN UNCHANGED updateDocCalls
       ELSE /\ Len(updateDocCalls) < MaxInFlight
            /\ updateDocCalls' = Append(updateDocCalls,
                  [client |-> c, requestId |-> requestId,
                   currentStatus |-> currentStatus,
                   data |-> StatusUpdate(c, nextStatus(currentStatus))])
    /\ UNCHANGED <<app, auth, marketVars, listeners, now, printlink_requests, userId, formVars, requests, loading, alertMsg>>

\* onClick of the button of the view's i-th entry.
ClickAdvance(c, i) ==
    /\ i \in 1..Len(requests[c])
    /\ isActionable(requests[c][i])
    /\ handleUpdateStatus(c, requests[c][i].id, requests[c][i].status)

\* updateDoc resolves: the store has merged the fields into the document.
updateDocResolved(k) ==
    /\ k \in 1..Len(updateDocCalls)
    /\ LET call == updateDocCalls[k]
       IN  printlink_requests' = [printlink_requests EXCEPT ![call.requestId] =
               Merge(@, Commit(call.data, now))]
    /\ updateDocCalls' = RemoveAt(updateDocCalls, k)
    /\ UNCHANGED <<app, auth, marketVars, listeners, now, userId, formVars, requests, loading, alertMsg>>

\* updateDoc rejects: the error is alerted.
updateDocRejected(k) ==
    /\ k \in 1..Len(updateDocCalls)
    /\ alertMsg' = <<updateDocCalls[k].client, "Failed to update status">>
    /\ updateDocCalls' = RemoveAt(updateDocCalls, k)
    /\ UNCHANGED <<app, auth, marketVars, listeners, now, printlink_requests, userId, formVars, requests, loading>>

(* ----------------- the field schema (src/unnamed/part_000) -------------- *)

REQUEST_FIELDS == <<
    [id |-> "title", label |-> "Project Title", type |-> "text", required |-> TRUE],
    [id |-> "modelInput", label |-> "3D Model Data (STL/CAD)",
     type |-> "conditional_model_input", required |-> TRUE],
    [id |-> "material", label |-> "Required Material", type |-> "select_with_other",
     required |-> TRUE],
    [id |-> "quantity", label |-> "Quantity", type |-> "number", required |-> TRUE],
    [id |-> "urgencyDays", label |-> "Required Urgency", type |-> "select",
     required |-> TRUE],
    [id |-> "priceRange", label |-> "Budget Expectation (Total)",
     type |-> "conditional_budget_select", required |-> TRUE],
    [id |-> "colors", label |-> "Colors/Finish", type |-> "multiselect_color_swatches",
     required |-> TRUE],
    [id |-> "shippingOption", label |-> "Delivery Method", type |-> "conditional_select",
     required |-> TRUE],
    [id |-> "pickupLocation", label |-> "Pickup Location", type |-> "select",
     required |-> TRUE],
    [id |-> "description", label |-> "Detailed Description", type |-> "textarea",
     required |-> FALSE] >>

\* The predefined budget ranges of the priceRange field.
BudgetRanges ==
    {[label |-> "$0 - $50", min |-> 0, max |-> 50],
     [label |-> "$50 - $150", min |-> 50, max |-> 150]}

INITIAL_FORM_DATA ==
    [title          |-> "",
     modelInput     |-> [type |-> "link", value |-> ""],
     material       |-> "PLA",
     quantity       |-> "",
     urgencyDays    |-> "7 Days (Standard)",
     priceRange     |-> [selectedRange |-> "", min |-> 0, max |-> 0],
     colors         |-> <<>>,
     shippingOption |-> "Shipping",
     pickupLocation |-> "New York City, NY",
     description    |-> ""]

\* typeof formData[field.id]: what INITIAL_FORM_DATA and the field's onChange
\* store. A number input stores e.target.value, a string.
TypeOfValue(field) ==
    IF field.type \in {"multiselect_color_swatches", "conditional_budget_select",
                       "conditional_model_input"}
    THEN "object" ELSE "string"

\* String.prototype.trim, on the strings the inputs take here.
Trim(str) == IF str \in {"", " "} THEN "" ELSE str

\* No error: validateForm returns null.
NoError == <<>>

\* value === 0 || value === null, for the value of a number field.
IsZeroOrNull(field, value) == TypeOfValue(field) = "number" /\ value = 0

\* The checks of validateForm's loop body on one required field, in order.
FieldError(field, data) ==
    LET value == data[field.id]
    IN  IF field.id = "modelInput" /\ Trim(value.value) = ""
        THEN <<"Model Data (", value.type, ") is required.">>
        ELSE IF field.type = "number" /\ IsZeroOrNull(field, value)
        THEN <<field.label, " cannot be zero.">>
        ELSE IF field.type = "multiselect_color_swatches" /\ Len(value) = 0
        THEN <<field.label, " is required.">>
        ELSE IF /\ field.id = "priceRange"
                /\ data.priceRange.selectedRange = "Other"
                /\ (data.priceRange.min <= 0 \/ data.priceRange.max <= 0)
        THEN <<"Please enter a valid Min/Max budget.">>
        ELSE IF /\ field.id = "shippingOption"
                /\ value = "Pickup"
                /\ data.pickupLocation = ""
        THEN <<"Please select a pickup location.">>
        ELSE IF TypeOfValue(field) = "string" /\ Trim(value) = ""
        THEN <<field.label, " is required.">>
        ELSE NoError

\* validateForm: the error of the first required field that has one, or null.
validateForm(data) ==
    LET failing == {i \in 1..Len(REQUEST_FIELDS) :
                       /\ REQUEST_FIELDS[i].required
                       /\ FieldError(REQUEST_FIELDS[i], data) # NoError}
    IN  IF failing = {} THEN NoError
        ELSE FieldError(REQUEST_FIELDS[CHOOSE i \in failing : \A j \in failing : i <= j],
                        data)

(* ----------------- PrintRequestForm (src/unnamed/part_000) -------------- *)

\* handleChange(id, newValue)
handleChange(c, id, newValue) ==
    /\ viewMode[c] = "requester"
    /\ formData' = [formData EXCEPT ![c] = Merge(@, [f \in {id} |-> newValue])]
    /\ UNCHANGED <<app, auth, now, userId, queueVars, listeners, viewMode, requesterVars, printRequests, offers, statusMessage,
                   isSubmitting, requestCalls, lastRequestSubmitted, makerVars>>

\* ConditionalModelInput: the two type buttons and the text input.
ModelInputEdits(value) ==
    {[type |-> "link", value |-> IF value.type = "link" THEN value.value ELSE ""],
     [type |-> "upload", value |-> IF value.type = "link" THEN "" ELSE value.value]}
    \cup {[type |-> value.type, value |-> v] : v \in {"", "bracket.stl"}}

\* SelectWithOther: the select, and the text input shown for an "Other:" value.
MaterialEdits(value) ==
    {"PLA", "Other:"} \cup (IF value \in {"Other:", "Other: Wood"} THEN {"Other: Wood"} ELSE {})

\* parseFloat(e.target.value) || 0, on what the budget inputs take here.
ParseAmount(str) ==
    CASE str = "10" -> 10
      [] str = "20" -> 20
      [] str = "-5" -> -5
      [] OTHER -> 0

\* ConditionalBudgetSelect: handleRangeChange, and handleManualChange of the two
\* inputs shown for "Other".
BudgetEdits(value) ==
    {[selectedRange |-> "Other", min |-> 0, max |-> 0]}
    \cup {[selectedRange |-> r.label, min |-> r.min, max |-> r.max] : r \in BudgetRanges}
    \cup (IF value.selectedRange = "Other"
          THEN {[value EXCEPT ![key] = ParseAmount(str)] :
                    key \in {"min", "max"}, str \in {"", "-5", "10", "20"}}
          ELSE {})

\* c.includes('Other')
IncludesOther(color) == color \in {"Other", "Other:"}

\* value.filter(keep)
RECURSIVE FilterColors(_, _)
FilterColors(value, drop) ==
    IF value = <<>> THEN <<>>
    ELSE IF Head(value) \in drop THEN FilterColors(Tail(value), drop)
         ELSE <<Head(value)>> \o FilterColors(Tail(value), drop)

Elements(value) == {value[i] : i \in 1..Len(value)}

\* MultiselectColorSwatches.handleSwatchClick(color)
handleSwatchClick(value, color) ==
    IF color = "Other"
    THEN IF "Other" \in Elements(value)
         THEN FilterColors(value, {"Other", "Other:"})
         ELSE FilterColors(value, {"Other", "Other:"}) \o <<"Other:">>
    ELSE IF color \in Elements(value)
         THEN FilterColors(value, {color})
         ELSE value \o <<color>>

\* Every edit the rendered form offers on field id.
FieldEdits(data, id) ==
    CASE id = "title" -> {"", " ", "Bracket"}
      [] id = "modelInput" -> ModelInputEdits(data.modelInput)
      [] id = "material" -> MaterialEdits(data.material)
      [] id = "quantity" -> {"", "0", "3"}
      [] id = "urgencyDays" -> {"7 Days (Standard)", "Next Day"}
      [] id = "priceRange" -> BudgetEdits(data.priceRange)
      [] id = "colors" -> {handleSwatchClick(data.colors, color) : color \in {"Black", "Other"}}
      [] id = "shippingOption" -> {"Shipping", "Pickup"}
      [] id = "pickupLocation" ->
            IF data.shippingOption = "Pickup"
            THEN {"New York City, NY", "Other"} ELSE {}
      [] id = "description" -> {"", "See drawing"}

FieldIds == {REQUEST_FIELDS[i].id : i \in 1..Len(REQUEST_FIELDS)}

\* MakerDashboard renders no form: while loading, or with no open request.
NoForms == [id \in {} |-> NULL]

\* The onSnapshot callbacks of a client's RequesterRequestsList that are at an
\* await when its effect's cleanup unsubscribes their listener.
Superseded(jobs, c) ==
    [k \in 1..Len(jobs) |->
        IF jobs[k].client = c THEN [jobs[k] EXCEPT !.current = FALSE] ELSE jobs[k]]

\* The same when the list is unmounted as well.
ListUnmounted(jobs, c) ==
    [k \in 1..Len(jobs) |->
        IF jobs[k].client = c
        THEN [jobs[k] EXCEPT !.current = FALSE, !.alive = FALSE] ELSE jobs[k]]

\* The calls of a client's forms that are awaiting the store when the forms
\* are unmounted: what they set afterwards is set on no mounted form.
FormsUnmounted(calls, c) ==
    [k \in 1..Len(calls) |->
        IF calls[k].client = c THEN [calls[k] EXCEPT !.mounted = FALSE] ELSE calls[k]]

\* The same when the MakerDashboard that rendered the forms is unmounted.
DashboardUnmounted(calls, c) ==
    [k \in 1..Len(calls) |->
        IF calls[k].client = c
        THEN [calls[k] EXCEPT !.mounted = FALSE, !.dashboard = FALSE] ELSE calls[k]]

\* An edit of one field of the form.
EditField(c, id) ==
    \E newValue \in FieldEdits(formData[c], id) : handleChange(c, id, newValue)

\* setUserId(uid) of useFirebase.
\* The effect of the list that is showing depends on userId: its cleanup and
\* its body run again, and the body sets loading.
setUserId(c, uid) ==
    /\ userId' = [userId EXCEPT ![c] = uid]
    /\ IF uid = userId[c]
       THEN UNCHANGED <<listeners, requesterVars, makerVars>>
       ELSE /\ listeners' = EffectBody(EffectCleanup(listeners, c, viewMode[c], userId[c]),
                                       c, viewMode[c], uid)
            /\ IF viewMode[c] = "requester"
               THEN /\ requesterLoading' = [requesterLoading EXCEPT ![c] = TRUE]
                    /\ snapshotJobs' = Superseded(snapshotJobs, c)
                    /\ UNCHANGED <<requesterRequests, makerVars>>
               ELSE /\ makerLoading' = [makerLoading EXCEPT ![c] = TRUE]
                    /\ offerForm' = [offerForm EXCEPT ![c] = NoForms]
                    /\ offerCalls' = FormsUnmounted(offerCalls, c)
                    /\ UNCHANGED <<makerRequests, offersMade, requesterVars>>
    /\ UNCHANGED <<app, now, queueVars, printRequests, offers, viewMode, requestVars>>

\* useFirebase: onAuthStateChanged reports a user: setUserId(user.uid) and
\* setIsAuthReady(true).
useFirebase_onUser(c, uid) ==
    /\ setUserId(c, uid)
    /\ auth' = [auth EXCEPT ![c] = Delivered(@, uid)]

\* useFirebase: onAuthStateChanged reports no user. With an initial token the
\* callback only sets isAuthReady; without one it calls signInAnonymously and
\* awaits it. userId is left as it is.
useFirebase_onNoUser(c) ==
    /\ auth' = [auth EXCEPT ![c] =
                   IF @.token THEN Delivered(@, NULL)
                   ELSE [@ EXCEPT !.delivered = TRUE, !.currentUser = NULL,
                                  !.pending = FALSE,
                                  !.calls = @ \cup {"callback"}]]
    /\ UNCHANGED <<app, now, userId, listeners, queueVars, marketVars>>

\* A sign-in call resolves: the provider has a current user and will report
\* it. The call awaited by the onAuthStateChanged callback goes on with
\* setUserId(anonUser.user.uid) and setIsAuthReady(true).
signInResolved(c, origin, uid) ==
    /\ origin \in auth[c].calls
    /\ IF origin = "callback"
       THEN /\ setUserId(c, uid)
            /\ auth' = [auth EXCEPT ![c] =
                           [@ EXCEPT !.isAuthReady = TRUE, !.currentUser = uid,
                                     !.pending = TRUE, !.calls = @ \ {origin}]]
       ELSE /\ auth' = [auth EXCEPT ![c] =
                           [@ EXCEPT !.currentUser = uid, !.pending = TRUE,
                                     !.calls = @ \ {origin}]]
            /\ UNCHANGED <<app, now, userId, listeners, queueVars, marketVars>>

\* A sign-in call rejects. attemptSignIn of useFirebase catches the error and,
\* with no current user, calls signInAnonymously once more, uncaught; the
\* job queue logs the error; the call awaited by the onAuthStateChanged
\* callback throws out of the callback, which ends there.
signInRejected(c, origin) ==
    /\ origin \in auth[c].calls
    /\ auth' = [auth EXCEPT ![c].calls =
                   IF origin = "attempt" /\ app = "part_000" /\ auth[c].currentUser = NULL
                   THEN (@ \ {origin}) \cup {"fallback"}
                   ELSE @ \ {origin}]
    /\ UNCHANGED <<app, now, userId, listeners, queueVars, marketVars>>

\* A submit button that is never disabled.
SubmitButtonDisabled_never(c) == FALSE

\* disabled={isSubmitting}, on the form's submit button.
SubmitButtonDisabled(c) == isSubmitting[c]

\* A document created as already claimed.
requestData_claimed(c) ==
    Merge(formData[c],
          [requesterId |-> userId[c], status |-> "In Progress",
           timestamp |-> serverTimestamp])

\* requestData: the document handleSubmit hands to addDoc.
requestData(c) ==
    Merge(formData[c],
          [requesterId |-> userId[c], status |-> "Pending", timestamp |-> serverTimestamp])

\* A handler that does not look at what validateForm returns.
validationError_ignored(c) == NoError

\* const validationError = validateForm();
validationError(c) == validateForm(formData[c])

\* A form that takes any session as signed in.
AuthNotReady_never(c) == FALSE

\* if (!db || !userId), the first check of handleSubmit; db is set.
AuthNotReady(c) == userId[c] = NULL

\* handleSubmit up to its await: the identity check, validateForm, and the
\* addDoc call. The form's submit event needs its submit button enabled.
PrintRequestForm_handleSubmit(c) ==
    /\ viewMode[c] = "requester"
    /\ ~SubmitButtonDisabled(c)
    /\ IF AuthNotReady(c)
       THEN /\ statusMessage' = [statusMessage EXCEPT ![c] =
                                    <<"Error: Authentication not ready.">>]
            /\ UNCHANGED <<isSubmitting, requestCalls>>
       ELSE IF validationError(c) # NoError
       THEN /\ statusMessage' = [statusMessage EXCEPT ![c] =
                                    <<"Validation Error: ", validationError(c)>>]
            /\ UNCHANGED <<isSubmitting, requestCalls>>
       ELSE /\ isSubmitting' = [isSubmitting EXCEPT ![c] = TRUE]
            /\ statusMessage' = [statusMessage EXCEPT ![c] = <<"Submitting request...">>]
            /\ requestCalls' = Append(requestCalls,
                                 [client |-> c, mounted |-> TRUE, data |-> requestData(c)])
    /\ UNCHANGED <<app, auth, now, userId, queueVars, listeners, viewMode, requesterVars, printRequests, offers, formData,
                   lastRequestSubmitted, makerVars>>

\* addDoc resolves with docRef: the success message, the form reset,
\* onFormSubmit(docRef.id), and finally setIsSubmitting(false); the form's own
\* state is set only if that form is still mounted. App's lastRequestSubmitted
\* is the key of RequesterRequestsList: a list that is showing is unmounted
\* and a new one mounted.
requestCallResolved(k) ==
    /\ k \in 1..Len(requestCalls)
    /\ Len(printRequests) < MaxRequests
    /\ LET call == requestCalls[k]
           c    == call.client
           id   == Len(printRequests) + 1
       IN  /\ printRequests' = Append(printRequests, Commit(call.data, now))
           /\ offers' = Append(offers, <<>>)
           /\ IF call.mounted
              THEN /\ statusMessage' = [statusMessage EXCEPT ![c] =
                          <<"Success! Request ID ", id, " submitted for maker review.">>]
                   /\ formData' = [formData EXCEPT ![c] = INITIAL_FORM_DATA]
                   /\ isSubmitting' = [isSubmitting EXCEPT ![c] = FALSE]
              ELSE UNCHANGED <<statusMessage, formData, isSubmitting>>
           /\ lastRequestSubmitted' = [lastRequestSubmitted EXCEPT ![c] = id]
           /\ IF viewMode[c] = "requester"
              THEN /\ listeners' = EffectBody(
                                       EffectCleanup(listeners, c, "requester", userId[c]),
                                       c, "requester", userId[c])
                   /\ requesterRequests' = [requesterRequests EXCEPT ![c] = <<>>]
                   /\ requesterLoading' = [requesterLoading EXCEPT ![c] = TRUE]
                   /\ snapshotJobs' = ListUnmounted(snapshotJobs, c)
              ELSE UNCHANGED <<listeners, requesterVars>>
    /\ requestCalls' = RemoveAt(requestCalls, k)
    /\ UNCHANGED <<app, auth, now, userId, queueVars, viewMode, makerVars>>

\* addDoc rejects: the failure message, and finally setIsSubmitting(false),
\* both lost if the form has been unmounted since.
requestCallRejected(k) ==
    /\ k \in 1..Len(requestCalls)
    /\ LET call == requestCalls[k]
       IN  IF call.mounted
           THEN /\ statusMessage' = [statusMessage EXCEPT ![call.client] =
                       <<"Submission Failed: ", "store error">>]
                /\ isSubmitting' = [isSubmitting EXCEPT ![call.client] = FALSE]
           ELSE UNCHANGED <<statusMessage, isSubmitting>>
    /\ requestCalls' = RemoveAt(requestCalls, k)
    /\ UNCHANGED <<app, auth, now, userId, queueVars, listeners, viewMode, requesterVars,
                   printRequests, offers, formData, lastRequestSubmitted, makerVars>>

(* ------------------ part_000: the maker's dashboard -------------------- *)

\* A float is <<n>>, n counted in hundredths, or NaN.
NaN == <<>>

\* What the price input (type="number") and the message box can hold.
PriceInputs == {"", "0", "-5", "12.50"}
MessageInputs == {"", "3 days, PETG"}

\* parseFloat on the strings a number input can hold.
parseFloat(str) ==
    CASE str = "0"     -> <<0>>
      [] str = "-5"    -> <<-500>>
      [] str = "12.50" -> <<1250>>
      [] OTHER         -> NaN

\* x < 0 on floats, the guard that lets a price of zero through.
LtZero(x) == x # NaN /\ x[1] < 0

\* x <= 0 on floats: a comparison with NaN is false.
LeqZero(x) == x # NaN /\ x[1] <= 0

\* MakerOfferForm: the state a form is mounted with.
NewOfferForm == [price |-> "", message |-> "", isSubmitting |-> FALSE, status |-> <<>>]

\* a.timestamp?.seconds || 0
Seconds(req) == req.timestamp \div TicksPerSecond

RECURSIVE InsertAsc(_, _)
\* Array.prototype.sort with (a, b) => seconds(a) - seconds(b): stable, ascending.
InsertAsc(sorted, x) ==
    IF sorted = <<>> THEN <<x>>
    ELSE IF Seconds(Head(sorted)) <= Seconds(x)
         THEN <<Head(sorted)>> \o InsertAsc(Tail(sorted), x)
         ELSE <<x>> \o sorted

RECURSIVE SortAsc(_)
SortAsc(s) ==
    IF s = <<>> THEN <<>>
    ELSE InsertAsc(SortAsc(SubSeq(s, 1, Len(s) - 1)), s[Len(s)])

\* querySnapshot.docs.map(doc => ({ id: doc.id, ...doc.data() })) over the
\* query where('status', '==', 'Pending').
fetchedRequests ==
    SelectSeq([id \in 1..Len(printRequests) |-> Merge([id |-> id], printRequests[id])],
              LAMBDA req : req.status = "Pending")

\* A snapshot callback that skips the filter on requesterId.
openRequests_unfiltered(c) == SortAsc(fetchedRequests)

\* The snapshot callback's openRequests, filtered and sorted.
openRequests(c) ==
    SortAsc(SelectSeq(fetchedRequests, LAMBDA req : req.requesterId # userId[c]))

\* MakerDashboard: the store delivers a snapshot to the listener; the list is
\* rendered, and a form is mounted for each request that had none.
MakerSnapshot(c) ==
    /\ Listening(c, "maker")
    /\ LET view == openRequests(c)
           ids  == {view[i].id : i \in 1..Len(view)}
       IN  /\ makerRequests' = [makerRequests EXCEPT ![c] = view]
           /\ offerForm' = [offerForm EXCEPT ![c] =
                  [id \in ids |-> IF id \in DOMAIN offerForm[c]
                                  THEN offerForm[c][id] ELSE NewOfferForm]]
    /\ makerLoading' = [makerLoading EXCEPT ![c] = FALSE]
    /\ UNCHANGED <<app, auth, now, userId, queueVars, listeners, viewMode, requesterVars, printRequests, offers, requestVars,
                   offersMade, offerCalls>>

\* onChange of the price input.
setPrice(c, id, v) ==
    /\ id \in DOMAIN offerForm[c]
    /\ offerForm' = [offerForm EXCEPT ![c][id].price = v]
    /\ UNCHANGED <<app, auth, now, userId, queueVars, listeners, viewMode, requesterVars, printRequests, offers, requestVars,
                   makerRequests, makerLoading, offersMade, offerCalls>>

\* onChange of the message box.
setMessage(c, id, v) ==
    /\ id \in DOMAIN offerForm[c]
    /\ offerForm' = [offerForm EXCEPT ![c][id].message = v]
    /\ UNCHANGED <<app, auth, now, userId, queueVars, listeners, viewMode, requesterVars, printRequests, offers, requestVars,
                   makerRequests, makerLoading, offersMade, offerCalls>>

\* disabled={isSubmitting || !price}, on the form's button.
OfferButtonDisabled(c, id) ==
    offerForm[c][id].isSubmitting \/ offerForm[c][id].price = ""

\* requestTitle={req.title}, the prop of the form rendered for request id.
requestTitle(c, id) ==
    LET i == CHOOSE j \in 1..Len(makerRequests[c]) : makerRequests[c][j].id = id
    IN  makerRequests[c][i].title

\* The guard of handleSubmitOffer; db is set and a document id is never empty.
InvalidOffer(c, id) ==
    userId[c] = NULL \/ LeqZero(parseFloat(offerForm[c][id].price))

\* offerData: the document handleSubmitOffer hands to addDoc.
offerData(c, id) ==
    [makerId   |-> userId[c],
     price     |-> parseFloat(offerForm[c][id].price),
     message   |-> IF offerForm[c][id].message = ""
                   THEN <<"Offer for \"", requestTitle(c, id),
                          "\" - see details in request.">>
                   ELSE <<offerForm[c][id].message>>,
     timestamp |-> serverTimestamp]

\* handleSubmitOffer up to its await: the guard and the addDoc call. A click
\* needs the button enabled.
handleSubmitOffer(c, id) ==
    /\ id \in DOMAIN offerForm[c]
    /\ ~OfferButtonDisabled(c, id)
    /\ IF InvalidOffer(c, id)
       THEN /\ offerForm' = [offerForm EXCEPT ![c][id].status =
                                <<"Error: Please enter a valid price.">>]
            /\ UNCHANGED offerCalls
       ELSE /\ Len(offerCalls) < MaxInFlight
            /\ offerForm' = [offerForm EXCEPT
                                ![c][id].isSubmitting = TRUE,
                                ![c][id].status = <<"Submitting offer...">>]
            /\ offerCalls' = Append(offerCalls,
                                [client |-> c, mounted |-> TRUE, dashboard |-> TRUE,
                                 requestId |-> id,
                                 data |-> offerData(c, id)])
    /\ UNCHANGED <<app, auth, now, userId, queueVars, listeners, viewMode, requesterVars, printRequests, offers, requestVars,
                   makerRequests, makerLoading, offersMade>>

\* A store write that keeps one offer per maker: a later offer replaces the
\* maker's earlier one.
addOffer_upsert(requestId, data) ==
    /\ LET stored == offers[requestId]
           mine   == {j \in 1..Len(stored) : stored[j].makerId = data.makerId}
       IN  offers' = [offers EXCEPT ![requestId] =
                         IF mine = {} THEN Append(stored, Commit(data, now))
                         ELSE [j \in 1..Len(stored) |->
                                  IF j \in mine THEN Commit(data, now) ELSE stored[j]]]
    /\ printRequests' = printRequests

\* A store write that marks the request as taken when it stores an offer.
addOffer_claimsRequest(requestId, data) ==
    /\ offers' = [offers EXCEPT ![requestId] = Append(@, Commit(data, now))]
    /\ printRequests' = [printRequests EXCEPT ![requestId].status = "In Progress"]

\* The store commits addDoc(collection(db, `.../printRequests/${requestId}/offers`),
\* offerData): a document of the sub-collection, the request left as it is.
addOffer(requestId, data) ==
    /\ offers' = [offers EXCEPT ![requestId] = Append(@, Commit(data, now))]
    /\ printRequests' = printRequests

\* addDoc resolves: the offer is stored under its request. onOfferMade()
\* changes offersMade of the dashboard that rendered the form, if it is still
\* mounted; its effect then runs again and sets loading: the forms are
\* unmounted, and with them the status and the cleared inputs.
offerCallResolved(k) ==
    /\ k \in 1..Len(offerCalls)
    /\ LET call == offerCalls[k]
           c    == call.client
       IN  /\ Len(offers[call.requestId]) < MaxOffers
           /\ addOffer(call.requestId, call.data)
           /\ IF call.dashboard
              THEN /\ offersMade' = [offersMade EXCEPT ![c][call.requestId] = @ + 1]
                   /\ listeners' = EffectBody(
                                       EffectCleanup(listeners, c, "maker", userId[c]),
                                       c, "maker", userId[c])
                   /\ makerLoading' = [makerLoading EXCEPT ![c] = TRUE]
                   /\ offerForm' = [offerForm EXCEPT ![c] = NoForms]
                   /\ offerCalls' = FormsUnmounted(RemoveAt(offerCalls, k), c)
              ELSE /\ offerCalls' = RemoveAt(offerCalls, k)
                   /\ UNCHANGED <<offersMade, listeners, makerLoading, offerForm>>
    /\ UNCHANGED <<app, auth, now, userId, queueVars, viewMode, requesterVars, requestVars,
                   makerRequests>>

\* A rejection handled as if its form were gone: no finally block.
StillMounted_never(call) == FALSE

\* The form that made the call is still the one mounted for its request.
StillMounted(call) ==
    /\ call.mounted
    /\ call.requestId \in DOMAIN offerForm[call.client]

\* addDoc rejects: the failure message, and finally setIsSubmitting(false),
\* both lost if the form has been unmounted since.
offerCallRejected(k) ==
    /\ k \in 1..Len(offerCalls)
    /\ LET call == offerCalls[k]
       IN  offerForm' = IF StillMounted(call)
                        THEN [offerForm EXCEPT
                                 ![call.client][call.requestId].status =
                                     <<"Error: Failed to submit offer. ", "store error">>,
                                 ![call.client][call.requestId].isSubmitting = FALSE]
                        ELSE offerForm
    /\ offerCalls' = RemoveAt(offerCalls, k)
    /\ UNCHANGED <<app, auth, now, userId, queueVars, listeners, viewMode, requesterVars, printRequests, offers, requestVars,
                   makerRequests, makerLoading, offersMade>>

(* ---------------- part_000: the requester's own requests ---------------- *)

RECURSIVE InsertNewest(_, _)
\* Array.prototype.sort with (a, b) => seconds(b) - seconds(a): stable, descending.
InsertNewest(sorted, x) ==
    IF sorted = <<>> THEN <<x>>
    ELSE IF Seconds(Head(sorted)) >= Seconds(x)
         THEN <<Head(sorted)>> \o InsertNewest(Tail(sorted), x)
         ELSE <<x>> \o sorted

RECURSIVE SortNewest(_)
SortNewest(s) ==
    IF s = <<>> THEN <<>>
    ELSE InsertNewest(SortNewest(SubSeq(s, 1, Len(s) - 1)), s[Len(s)])

\* querySnapshot.docs of the query where('requesterId', '==', userId), each
\* as the loop's requestData = { id: doc.id, ...doc.data(), offers: [] }.
requesterDocs(uid) ==
    SelectSeq([id \in 1..Len(printRequests) |->
                  Merge(Merge([id |-> id], printRequests[id]), [offers |-> <<>>])],
              LAMBDA req : req.requesterId = uid)

\* A fetch that keeps the first offer only.
offerDocs_firstOnly(requestId) ==
    [j \in 1..(IF offers[requestId] = <<>> THEN 0 ELSE 1) |->
        Merge([id |-> j], offers[requestId][j])]

\* offersSnapshot.docs.map(offerDoc => ({ id: offerDoc.id, ...offerDoc.data() }))
offerDocs(requestId) ==
    [j \in 1..Len(offers[requestId]) |-> Merge([id |-> j], offers[requestId][j])]

\* The listener a client's RequesterRequestsList holds.
requesterListener(c) ==
    listeners[CHOOSE i \in 1..Len(listeners) :
                 listeners[i].client = c /\ listeners[i].view = "requester"]

\* The onSnapshot callback of RequesterRequestsList up to its first await:
\* with no document it sets the empty list at once; otherwise it stops at the
\* await of the first document's offers, a listener on them registered.
RequesterSnapshot(c) ==
    /\ Listening(c, "requester")
    /\ LET docs == requesterDocs(requesterListener(c).uid)
       IN  IF docs = <<>>
           THEN /\ requesterRequests' = [requesterRequests EXCEPT ![c] = <<>>]
                /\ requesterLoading' = [requesterLoading EXCEPT ![c] = FALSE]
                /\ UNCHANGED snapshotJobs
           ELSE /\ Len(snapshotJobs) < MaxJobs
                /\ snapshotJobs' = Append(snapshotJobs,
                       [client |-> c, docs |-> docs, fetchedRequests |-> <<>>,
                        alive |-> TRUE, current |-> TRUE])
                /\ UNCHANGED <<requesterRequests, requesterLoading>>
    /\ UNCHANGED <<app, auth, now, userId, queueVars, listeners, viewMode, printRequests, offers,
                   requestVars, makerVars>>

\* The offers listener of a callback at its await fires: it unsubscribes
\* itself and resolves, the offers are attached and the request pushed. The
\* loop goes on to the await of the next document, or the callback ends:
\* sort, setRequests, setLoading(false), which set nothing if the list that
\* started the callback is unmounted.
OffersSnapshot(k) ==
    /\ k \in 1..Len(snapshotJobs)
    /\ LET job  == snapshotJobs[k]
           doc  == job.docs[Len(job.fetchedRequests) + 1]
           done == Append(job.fetchedRequests, Merge(doc, [offers |-> offerDocs(doc.id)]))
       IN  IF Len(done) < Len(job.docs)
           THEN /\ snapshotJobs' = [snapshotJobs EXCEPT ![k].fetchedRequests = done]
                /\ UNCHANGED <<requesterRequests, requesterLoading>>
           ELSE /\ snapshotJobs' = RemoveAt(snapshotJobs, k)
                /\ IF job.alive
                   THEN /\ requesterRequests' =
                              [requesterRequests EXCEPT ![job.client] = SortNewest(done)]
                        /\ requesterLoading' =
                              [requesterLoading EXCEPT ![job.client] = FALSE]
                   ELSE UNCHANGED <<requesterRequests, requesterLoading>>
    /\ UNCHANGED <<app, auth, now, userId, queueVars, listeners, viewMode, printRequests, offers,
                   requestVars, makerVars>>

(* --------------------------- part_000: App ----------------------------- *)

\* handleViewSwitch(mode): the components of the other view are unmounted,
\* their effects' cleanups run, and those of the new view are mounted with
\* their initial state, their effects run.
handleViewSwitch(c, mode) ==
    /\ mode # viewMode[c]
    /\ viewMode' = [viewMode EXCEPT ![c] = mode]
    /\ listeners' = EffectBody(EffectCleanup(listeners, c, viewMode[c], userId[c]),
                               c, mode, userId[c])
    /\ IF mode = "maker"
       THEN /\ formData' = [formData EXCEPT ![c] = INITIAL_FORM_DATA]
            /\ statusMessage' = [statusMessage EXCEPT ![c] = <<>>]
            /\ isSubmitting' = [isSubmitting EXCEPT ![c] = FALSE]
            /\ requestCalls' = FormsUnmounted(requestCalls, c)
            /\ requesterRequests' = [requesterRequests EXCEPT ![c] = <<>>]
            /\ requesterLoading' = [requesterLoading EXCEPT ![c] = TRUE]
            /\ snapshotJobs' = ListUnmounted(snapshotJobs, c)
            /\ UNCHANGED makerVars
       ELSE /\ makerRequests' = [makerRequests EXCEPT ![c] = <<>>]
            /\ makerLoading' = [makerLoading EXCEPT ![c] = TRUE]
            /\ offersMade' = [offersMade EXCEPT ![c] = [id \in 1..MaxRequests |-> 0]]
            /\ offerForm' = [offerForm EXCEPT ![c] = NoForms]
            /\ offerCalls' = DashboardUnmounted(offerCalls, c)
            /\ UNCHANGED <<formData, statusMessage, isSubmitting, requestCalls,
                           requesterVars>>
    /\ UNCHANGED <<app, auth, now, userId, queueVars, printRequests, offers, lastRequestSubmitted>>

(* ------------------------------ the store ------------------------------ *)

Tick ==
    /\ now < MaxTime
    /\ now' = now + 1
    /\ UNCHANGED <<app, auth, marketVars, listeners, printlink_requests, userId, formVars, listVars, alertMsg>>

(* --------------------------- specifications ---------------------------- *)

\* The marketplace before any use.
MarketIdle ==
    /\ printRequests = <<>>
    /\ offers = <<>>
    /\ formData = [c \in Users |-> INITIAL_FORM_DATA]
    /\ statusMessage = [c \in Users |-> <<>>]
    /\ isSubmitting = [c \in Users |-> FALSE]
    /\ requestCalls = <<>>
    /\ lastRequestSubmitted = [c \in Users |-> NoRequest]
    /\ makerRequests = [c \in Users |-> <<>>]
    /\ makerLoading = [c \in Users |-> TRUE]
    /\ offersMade = [c \in Users |-> [id \in 1..MaxRequests |-> 0]]
    /\ offerForm = [c \in Users |-> NoForms]
    /\ offerCalls = <<>>
    /\ viewMode = [c \in Users |-> "requester"]
    /\ requesterRequests = [c \in Users |-> <<>>]
    /\ requesterLoading = [c \in Users |-> TRUE]
    /\ snapshotJobs = <<>>

\* The marketplace over a collection of requests without offers, each client
\* showing the view modes[c], its request form holding forms[c].
MarketShowing(reqs, modes, forms) ==
    /\ printRequests = reqs
    /\ offers = [id \in 1..Len(reqs) |-> <<>>]
    /\ formData = forms
    /\ statusMessage = [c \in Users |-> <<>>]
    /\ isSubmitting = [c \in Users |-> FALSE]
    /\ requestCalls = <<>>
    /\ lastRequestSubmitted = [c \in Users |-> NoRequest]
    /\ makerRequests = [c \in Users |-> <<>>]
    /\ makerLoading = [c \in Users |-> TRUE]
    /\ offersMade = [c \in Users |-> [id \in 1..MaxRequests |-> 0]]
    /\ offerForm = [c \in Users |-> NoForms]
    /\ offerCalls = <<>>
    /\ viewMode = modes
    /\ requesterRequests = [c \in Users |-> <<>>]
    /\ requesterLoading = [c \in Users |-> TRUE]
    /\ snapshotJobs = <<>>

\* Every request form as mounted, and with the form of u1 filled in.
EmptyForms == [c \in Users |-> INITIAL_FORM_DATA]

\* Sessions whose sign-in has settled and been reported: every call has
\* returned, the last onAuthStateChanged callback has run. A session that is
\* ready without identity is the marketplace's started with an initial token.
AuthSettled ==
    [c \in Users |->
        [isAuthReady |-> TRUE, delivered |-> TRUE, token |-> userId[c] = NULL,
         currentUser |-> userId[c], pending |-> FALSE, calls |-> {}]]

\* The listeners the effects of the lists that are showing have registered.
UserSeq == <<"u1", "u2">>

MountedListeners ==
    SelectSeq([i \in 1..Len(UserSeq) |->
                  Listener(UserSeq[i],
                           IF app = "PrintLink.jsx" THEN "queue" ELSE viewMode[UserSeq[i]],
                           userId[UserSeq[i]])],
              LAMBDA l : l.uid # NULL)

\* The job queue before any use.
QueueIdle ==
    /\ printlink_requests = <<>>
    /\ title = [c \in Users |-> ""]
    /\ pages = [c \in Users |-> ""]
    /\ isSaving = [c \in Users |-> FALSE]
    /\ addDocCalls = <<>>
    /\ requests = [c \in Users |-> <<>>]
    /\ loading = [c \in Users |-> TRUE]
    /\ updateDocCalls = <<>>
    /\ alertMsg = <<NULL, "">>

\* The requests a collection may hold when two signed-in makers start work.
QueuedRequest(uid) ==
    [requesterId |-> uid, title |-> "Report", pages |-> ParseInt("5"),
     status |-> "Pending", createdAt |-> 0]

InitialQueues ==
    UNION {[1..n -> {QueuedRequest(uid) : uid \in Users}] : n \in 1..MaxQueued}

\* The job queue at work: every client is signed in, requests are queued.
InitQueue ==
    /\ app = "PrintLink.jsx"
    /\ MarketIdle
    /\ now = 0
    /\ printlink_requests \in InitialQueues
    /\ userId = [c \in Users |-> c]
    /\ title = [c \in Users |-> ""]
    /\ pages = [c \in Users |-> ""]
    /\ isSaving = [c \in Users |-> FALSE]
    /\ addDocCalls = <<>>
    /\ requests = [c \in Users |-> <<>>]
    /\ loading = [c \in Users |-> TRUE]
    /\ updateDocCalls = <<>>
    /\ alertMsg = <<NULL, "">>
    /\ listeners = MountedListeners
    /\ auth = AuthSettled

NextQueue ==
    \/ \E c \in Users : \E user \in {NULL, c} : AuthStateChanged(c, user)
    \/ \E c \in Users : Snapshot(c)
    \/ \E c \in Users, i \in 1..MaxQueued : ClickAdvance(c, i)
    \/ \E k \in 1..MaxInFlight : updateDocResolved(k)
    \/ \E k \in 1..MaxInFlight : updateDocRejected(k)
    \/ Tick

SpecQueue == InitQueue /\ [][NextQueue]_vars

\* The job queue freshly mounted over a collection of requests.
QueueShowing(reqs) ==
    /\ printlink_requests = reqs
    /\ title = [c \in Users |-> ""]
    /\ pages = [c \in Users |-> ""]
    /\ isSaving = [c \in Users |-> FALSE]
    /\ addDocCalls = <<>>
    /\ requests = [c \in Users |-> <<>>]
    /\ loading = [c \in Users |-> TRUE]
    /\ updateDocCalls = <<>>
    /\ alertMsg = <<NULL, "">>

\* The contract of handleUpdateStatus: it is called with any request of the
\* collection and any status value, by a client signed in or not.
StatusInputs == {"Pending", "In Progress", "Complete", "Archived"}

InitAdvance ==
    /\ app = "PrintLink.jsx"
    /\ MarketIdle
    /\ now = 0
    /\ printlink_requests \in InitialQueues
    /\ userId \in [Users -> Users \cup {NULL}]
    /\ \A c \in Users : userId[c] \in {NULL, c}
    /\ title = [c \in Users |-> ""]
    /\ pages = [c \in Users |-> ""]
    /\ isSaving = [c \in Users |-> FALSE]
    /\ addDocCalls = <<>>
    /\ requests = [c \in Users |-> <<>>]
    /\ loading = [c \in Users |-> TRUE]
    /\ updateDocCalls = <<>>
    /\ alertMsg = <<NULL, "">>
    /\ listeners = MountedListeners
    /\ auth = AuthSettled

NextAdvance ==
    \/ \E c \in Users, id \in 1..MaxQueued, s \in StatusInputs :
           id \in 1..Len(printlink_requests) /\ handleUpdateStatus(c, id, s)
    \/ \E k \in 1..MaxInFlight : updateDocResolved(k)
    \/ \E k \in 1..MaxInFlight : updateDocRejected(k)
    \/ Tick

SpecAdvance == InitAdvance /\ [][NextAdvance]_vars

\* The request form under every edit it offers; the client that edits it.
Requester == "u1"

InitValidate ==
    /\ app = "part_000"
    /\ now = 0
    /\ userId = [c \in Users |-> c]
    /\ QueueIdle
    /\ MarketIdle
    /\ listeners = MountedListeners
    /\ auth = AuthSettled

NextValidate == \E id \in FieldIds : EditField(Requester, id)

SpecValidate == InitValidate /\ [][NextValidate]_vars

\* Submitting requests: one client, running either variant, fills its form
\* and submits; the identity provider may hand the session any identity.
SubmitClients == {Requester}

SubmitEdits ==
    {<<"title", "Bracket">>, <<"title", "">>, <<"quantity", "3">>,
     <<"modelInput", [type |-> "link", value |-> "bracket.stl"]>>,
     <<"colors", <<"Black">> >>}

InitSubmit ==
    /\ app \in {"PrintLink.jsx", "part_000"}
    /\ now = 0
    /\ userId = [c \in Users |-> NULL]
    /\ QueueIdle
    /\ MarketIdle
    /\ listeners = MountedListeners
    /\ auth = AuthSettled

QueueRuns == app = "PrintLink.jsx"
MarketRuns == app = "part_000"

NextSubmit ==
    \/ \E c \in SubmitClients, user \in Users \cup {NULL} :
          QueueRuns /\ AuthStateChanged(c, user)
    \/ \E c \in SubmitClients, v \in TitleInputs : QueueRuns /\ setTitle(c, v)
    \/ \E c \in SubmitClients, v \in PagesInputs : QueueRuns /\ setPages(c, v)
    \/ \E c \in SubmitClients : QueueRuns /\ RequestForm_handleSubmit(c)
    \/ \E k \in 1..Len(addDocCalls) : QueueRuns /\ addDocResolved(k)
    \/ \E k \in 1..Len(addDocCalls) : QueueRuns /\ addDocRejected(k)
    \/ \E c \in SubmitClients, uid \in Users : MarketRuns /\ useFirebase_onUser(c, uid)
    \/ \E c \in SubmitClients, e \in SubmitEdits :
          /\ MarketRuns
          /\ e[2] \in FieldEdits(formData[c], e[1])
          /\ handleChange(c, e[1], e[2])
    \/ \E c \in SubmitClients : MarketRuns /\ PrintRequestForm_handleSubmit(c)
    \/ \E k \in 1..Len(requestCalls) : MarketRuns /\ requestCallResolved(k)
    \/ \E k \in 1..Len(requestCalls) : MarketRuns /\ requestCallRejected(k)

SpecSubmit == InitSubmit /\ [][NextSubmit]_vars

\* Bidding: requests are open, from the two clients' users or from a user of
\* another session; each client has the maker's dashboard showing.
OtherUser == "u3"

FilledForm ==
    Merge(INITIAL_FORM_DATA,
          [title |-> "Bracket", quantity |-> "3", colors |-> <<"Black">>,
           modelInput |-> [type |-> "link", value |-> "bracket.stl"]])

OpenRequest(uid) ==
    Commit(Merge(FilledForm, [requesterId |-> uid, status |-> "Pending",
                              timestamp |-> serverTimestamp]), 0)

InitialMarkets ==
    UNION {[1..n -> {OpenRequest(uid) : uid \in Users \cup {OtherUser}}] : n \in 1..MaxQueued}

InitOffer ==
    /\ app = "part_000"
    /\ now = 0
    /\ userId = [c \in Users |-> c]
    /\ QueueIdle
    /\ printRequests \in InitialMarkets
    /\ offers = [id \in 1..Len(printRequests) |-> <<>>]
    /\ formData = [c \in Users |-> INITIAL_FORM_DATA]
    /\ statusMessage = [c \in Users |-> <<>>]
    /\ isSubmitting = [c \in Users |-> FALSE]
    /\ requestCalls = <<>>
    /\ lastRequestSubmitted = [c \in Users |-> NoRequest]
    /\ makerRequests = [c \in Users |-> <<>>]
    /\ makerLoading = [c \in Users |-> TRUE]
    /\ offersMade = [c \in Users |-> [id \in 1..MaxRequests |-> 0]]
    /\ offerForm = [c \in Users |-> NoForms]
    /\ offerCalls = <<>>
    /\ viewMode = [c \in Users |-> "maker"]
    /\ requesterRequests = [c \in Users |-> <<>>]
    /\ requesterLoading = [c \in Users |-> TRUE]
    /\ snapshotJobs = <<>>
    /\ listeners = MountedListeners
    /\ auth = AuthSettled

NextOffer ==
    \/ \E c \in Users : MakerSnapshot(c)
    \/ \E c \in Users, id \in 1..MaxQueued, v \in PriceInputs : setPrice(c, id, v)
    \/ \E c \in Users, id \in 1..MaxQueued, v \in MessageInputs : setMessage(c, id, v)
    \/ \E c \in Users, id \in 1..MaxQueued : handleSubmitOffer(c, id)
    \/ \E k \in 1..MaxInFlight : offerCallResolved(k)
    \/ \E k \in 1..MaxInFlight : offerCallRejected(k)
    \/ Tick

SpecOffer == InitOffer /\ [][NextOffer]_vars


\* Bidding while the identity provider may hand a session another identity.
NextIdentity ==
    \/ \E c \in Users, uid \in Users : uid # userId[c] /\ useFirebase_onUser(c, uid)
    \/ \E c \in Users : MakerSnapshot(c)
    \/ \E c \in Users, id \in 1..MaxQueued, v \in {"0", "12.50"} : setPrice(c, id, v)
    \/ \E c \in Users, id \in 1..MaxQueued : handleSubmitOffer(c, id)
    \/ \E k \in 1..MaxInFlight : offerCallResolved(k)
    \/ \E k \in 1..MaxInFlight : offerCallRejected(k)

SpecIdentity == InitOffer /\ [][NextIdentity]_vars

\* The lists at work. The collection holds requests created at any tick up to
\* MaxStamp; a collection lists its documents by document id, which addDoc
\* draws at random, so in any order of creation. In the marketplace u1 shows
\* its own requests, the form filled in, and u2 the maker's dashboard.
OpenRequestAt(uid, t) ==
    Commit(Merge(FilledForm, [requesterId |-> uid, status |-> "Pending",
                              timestamp |-> serverTimestamp]), t)

QueuedRequestAt(uid, t) ==
    [requesterId |-> uid, title |-> "Report", pages |-> ParseInt("5"),
     status |-> "Pending", createdAt |-> t]

InitViews ==
    /\ app \in {"PrintLink.jsx", "part_000"}
    /\ now = MaxStamp
    /\ userId = [c \in Users |-> c]
    /\ \E n \in 1..MaxRequests :
          IF app = "PrintLink.jsx"
          THEN /\ printlink_requests \in
                     [1..n -> {QueuedRequestAt(uid, t) : uid \in Users, t \in 0..MaxStamp}]
               /\ printRequests = <<>>
          ELSE /\ printRequests \in
                     [1..n -> {OpenRequestAt(uid, t) : uid \in Users, t \in 0..MaxStamp}]
               /\ printlink_requests = <<>>
    /\ offers = [id \in 1..Len(printRequests) |-> <<>>]
    /\ title = [c \in Users |-> ""]
    /\ pages = [c \in Users |-> ""]
    /\ isSaving = [c \in Users |-> FALSE]
    /\ addDocCalls = <<>>
    /\ requests = [c \in Users |-> <<>>]
    /\ loading = [c \in Users |-> TRUE]
    /\ updateDocCalls = <<>>
    /\ alertMsg = <<NULL, "">>
    /\ formData = [c \in Users |-> IF app = "part_000" /\ c = Requester
                                   THEN FilledForm ELSE INITIAL_FORM_DATA]
    /\ statusMessage = [c \in Users |-> <<>>]
    /\ isSubmitting = [c \in Users |-> FALSE]
    /\ requestCalls = <<>>
    /\ lastRequestSubmitted = [c \in Users |-> NoRequest]
    /\ makerRequests = [c \in Users |-> <<>>]
    /\ makerLoading = [c \in Users |-> TRUE]
    /\ offersMade = [c \in Users |-> [id \in 1..MaxRequests |-> 0]]
    /\ offerForm = [c \in Users |-> NoForms]
    /\ offerCalls = <<>>
    /\ viewMode = [c \in Users |-> IF c = Requester THEN "requester" ELSE "maker"]
    /\ requesterRequests = [c \in Users |-> <<>>]
    /\ requesterLoading = [c \in Users |-> TRUE]
    /\ snapshotJobs = <<>>
    /\ listeners = MountedListeners
    /\ auth = AuthSettled

NextViews ==
    \/ \E c \in Users : QueueRuns /\ Snapshot(c)
    \/ \E c \in Users : MarketRuns /\ MakerSnapshot(c)
    \/ \E c \in Users : MarketRuns /\ RequesterSnapshot(c)
    \/ \E k \in 1..MaxJobs : MarketRuns /\ OffersSnapshot(k)
    \/ \E c \in Users : MarketRuns /\ PrintRequestForm_handleSubmit(c)
    \/ \E k \in 1..Len(requestCalls) : MarketRuns /\ requestCallResolved(k)

SpecViews == InitViews /\ [][NextViews]_vars

\* Offers arriving while a requester's list refreshes: u1 shows its two
\* requests, u2 the maker's dashboard.
InitRefresh ==
    /\ app = "part_000"
    /\ now = 0
    /\ userId = [c \in Users |-> c]
    /\ QueueIdle
    /\ MarketShowing([id \in 1..MaxRequests |-> OpenRequest(Requester)],
                     [c \in Users |-> IF c = Requester THEN "requester" ELSE "maker"],
                     EmptyForms)
    /\ listeners = MountedListeners
    /\ auth = AuthSettled

NextRefresh ==
    \/ \E c \in Users : RequesterSnapshot(c)
    \/ \E k \in 1..MaxJobs : OffersSnapshot(k)
    \/ \E c \in Users : MakerSnapshot(c)
    \/ \E c \in Users, id \in 1..MaxRequests : setPrice(c, id, "12.50")
    \/ \E c \in Users, id \in 1..MaxRequests : handleSubmitOffer(c, id)
    \/ \E k \in 1..Len(offerCalls) : offerCallResolved(k)

SpecRefresh == InitRefresh /\ [][NextRefresh]_vars

\* The lists through their life: sessions change identity (the job queue's
\* can lose it), marketplace users switch between the two views, snapshots
\* arrive in between.
InitLifecycle ==
    /\ app \in {"PrintLink.jsx", "part_000"}
    /\ now = 0
    /\ userId = [c \in Users |-> c]
    /\ IF app = "PrintLink.jsx"
       THEN /\ \E reqs \in InitialQueues : QueueShowing(reqs)
            /\ MarketIdle
       ELSE /\ QueueIdle
            /\ \E reqs \in [1..MaxRequests -> {OpenRequest(uid) : uid \in Users}] :
                  MarketShowing(reqs, [c \in Users |-> "requester"], EmptyForms)
    /\ listeners = MountedListeners
    /\ auth = AuthSettled

NextLifecycle ==
    \/ \E c \in Users, user \in Users \cup {NULL} :
          QueueRuns /\ user # userId[c] /\ AuthStateChanged(c, user)
    \/ \E c \in Users : QueueRuns /\ Snapshot(c)
    \/ \E c \in Users, i \in 1..MaxQueued : QueueRuns /\ ClickAdvance(c, i)
    \/ \E k \in 1..MaxInFlight : QueueRuns /\ updateDocResolved(k)
    \/ \E c \in Users, uid \in Users :
          MarketRuns /\ uid # userId[c] /\ useFirebase_onUser(c, uid)
    \/ \E c \in Users, mode \in {"requester", "maker"} :
          MarketRuns /\ handleViewSwitch(c, mode)
    \/ \E c \in Users : MarketRuns /\ RequesterSnapshot(c)
    \/ \E k \in 1..MaxJobs : MarketRuns /\ OffersSnapshot(k)
    \/ \E c \in Users : MarketRuns /\ MakerSnapshot(c)

SpecLifecycle == InitLifecycle /\ [][NextLifecycle]_vars

\* Sessions without an identity. The job queue's can lose theirs at any time;
\* the marketplace renders before the custom-token sign-in has resolved, u1
\* with the request form and u2 with the maker's dashboard.
InitUnauth ==
    /\ app \in {"PrintLink.jsx", "part_000"}
    /\ now = 0
    /\ IF app = "PrintLink.jsx"
       THEN /\ userId = [c \in Users |-> c]
            /\ \E reqs \in InitialQueues : QueueShowing(reqs)
            /\ MarketIdle
       ELSE /\ userId = [c \in Users |-> NULL]
            /\ QueueIdle
            /\ MarketShowing(<<OpenRequest(OtherUser)>>,
                             [c \in Users |-> IF c = Requester THEN "requester"
                                                               ELSE "maker"],
                             EmptyForms)
    /\ listeners = MountedListeners
    /\ auth = AuthSettled

NextUnauth ==
    \/ \E c \in SubmitClients : \E user \in {NULL, c} :
          QueueRuns /\ user # userId[c] /\ AuthStateChanged(c, user)
    \/ \E c \in SubmitClients : QueueRuns /\ Snapshot(c)
    \/ \E c \in SubmitClients : QueueRuns /\ setTitle(c, "Report")
    \/ \E c \in SubmitClients : QueueRuns /\ setPages(c, "5")
    \/ \E c \in SubmitClients : QueueRuns /\ RequestForm_handleSubmit(c)
    \/ \E k \in 1..Len(addDocCalls) : QueueRuns /\ addDocResolved(k)
    \/ \E c \in SubmitClients, i \in 1..MaxRequests : QueueRuns /\ ClickAdvance(c, i)
    \/ \E k \in 1..Len(updateDocCalls) : QueueRuns /\ updateDocResolved(k)
    \/ \E c \in Users : MarketRuns /\ userId[c] = NULL /\ useFirebase_onUser(c, c)
    \/ \E c \in SubmitClients, e \in SubmitEdits :
          /\ MarketRuns
          /\ e[2] \in FieldEdits(formData[c], e[1])
          /\ handleChange(c, e[1], e[2])
    \/ \E c \in SubmitClients : MarketRuns /\ PrintRequestForm_handleSubmit(c)
    \/ \E k \in 1..Len(requestCalls) : MarketRuns /\ requestCallResolved(k)
    \/ \E c \in Users : MarketRuns /\ RequesterSnapshot(c)
    \/ \E k \in 1..Len(snapshotJobs) : MarketRuns /\ OffersSnapshot(k)
    \/ \E c \in Users : MarketRuns /\ MakerSnapshot(c)
    \/ \E c \in Users, id \in 1..MaxRequests : MarketRuns /\ setPrice(c, id, "12.50")
    \/ \E c \in Users, id \in 1..MaxRequests : MarketRuns /\ handleSubmitOffer(c, id)
    \/ \E k \in 1..Len(offerCalls) : MarketRuns /\ offerCallResolved(k)

SpecUnauth == InitUnauth /\ [][NextUnauth]_vars

\* Writes that fail. One client works, signed in: on the job queue it submits
\* requests and advances them; in the marketplace it has filled in the request
\* form, submits it, switches between the views and bids on the requests of
\* another user. The store may reject any call.
InitFailure ==
    /\ app \in {"PrintLink.jsx", "part_000"}
    /\ now = 0
    /\ userId = [c \in Users |-> c]
    /\ IF app = "PrintLink.jsx"
       THEN /\ \E reqs \in InitialQueues : QueueShowing(reqs)
            /\ MarketIdle
       ELSE /\ QueueIdle
            /\ \E n \in 1..MaxRequests :
                  MarketShowing([id \in 1..n |-> OpenRequest(OtherUser)],
                                [c \in Users |-> "requester"],
                                [c \in Users |-> IF c = Requester THEN FilledForm
                                                 ELSE INITIAL_FORM_DATA])
    /\ listeners = MountedListeners
    /\ auth = AuthSettled

NextFailure ==
    \/ \E c \in SubmitClients : QueueRuns /\ Snapshot(c)
    \/ \E c \in SubmitClients : QueueRuns /\ setTitle(c, "Report")
    \/ \E c \in SubmitClients : QueueRuns /\ setPages(c, "5")
    \/ \E c \in SubmitClients : QueueRuns /\ RequestForm_handleSubmit(c)
    \/ \E k \in 1..Len(addDocCalls) : QueueRuns /\ addDocResolved(k)
    \/ \E k \in 1..Len(addDocCalls) : QueueRuns /\ addDocRejected(k)
    \/ \E c \in SubmitClients, i \in 1..MaxRequests : QueueRuns /\ ClickAdvance(c, i)
    \/ \E k \in 1..Len(updateDocCalls) : QueueRuns /\ updateDocResolved(k)
    \/ \E k \in 1..Len(updateDocCalls) : QueueRuns /\ updateDocRejected(k)
    \/ \E c \in SubmitClients : MarketRuns /\ PrintRequestForm_handleSubmit(c)
    \/ \E k \in 1..Len(requestCalls) : MarketRuns /\ requestCallResolved(k)
    \/ \E k \in 1..Len(requestCalls) : MarketRuns /\ requestCallRejected(k)
    \/ \E c \in SubmitClients, mode \in {"requester", "maker"} :
          MarketRuns /\ handleViewSwitch(c, mode)
    \/ \E c \in SubmitClients : MarketRuns /\ MakerSnapshot(c)
    \/ \E c \in SubmitClients, id \in 1..MaxRequests :
          MarketRuns /\ setPrice(c, id, "12.50")
    \/ \E c \in SubmitClients, id \in 1..MaxRequests :
          MarketRuns /\ handleSubmitOffer(c, id)
    \/ \E k \in 1..Len(offerCalls) : MarketRuns /\ offerCallResolved(k)
    \/ \E k \in 1..Len(offerCalls) : MarketRuns /\ offerCallRejected(k)

SpecFailure == InitFailure /\ [][NextFailure]_vars

\* Budgets: u1, signed in, has filled in the request form, sets the budget
\* any way the form offers and submits.
InitBudget ==
    /\ app = "part_000"
    /\ now = 0
    /\ userId = [c \in Users |-> c]
    /\ QueueIdle
    /\ MarketShowing(<<>>, [c \in Users |-> "requester"],
                     [c \in Users |-> IF c = Requester THEN FilledForm
                                      ELSE INITIAL_FORM_DATA])
    /\ listeners = MountedListeners
    /\ auth = AuthSettled

NextBudget ==
    \/ \E v \in FieldEdits(formData[Requester], "priceRange") :
          handleChange(Requester, "priceRange", v)
    \/ PrintRequestForm_handleSubmit(Requester)
    \/ \E k \in 1..Len(requestCalls) : requestCallResolved(k)
    \/ \E k \in 1..Len(requestCalls) : requestCallRejected(k)

SpecBudget == InitBudget /\ [][NextBudget]_vars

(* ------------------------ claims: the job queue ------------------------ *)

Rank(status) == CHOOSE i \in 1..Len(STATUS_OPTIONS) : STATUS_OPTIONS[i] = status

Docs == 1..Len(printlink_requests)

\* C1: the stored status of a request only moves forward along
\* Pending -> In Progress -> Complete: no step lowers it.
C1_StatusOnlyMovesForward ==
    [][\A id \in Docs :
          Rank(printlink_requests'[id].status) >= Rank(printlink_requests[id].status)]_vars

\* C2: the advance from In Progress to Complete keeps the makerId that the
\* claim (Pending -> In Progress) stored.
C2_CompleteKeepsMakerId ==
    [][\A id \in Docs :
          (/\ printlink_requests[id].status = "In Progress"
           /\ printlink_requests'[id].status = "Complete")
          => printlink_requests'[id].makerId = printlink_requests[id].makerId]_vars

\* C3: of two makers who each advance the same request seeing it Pending, one
\* sets makerId; the advance of the other, reaching a request that is already
\* claimed, leaves the status In Progress and does not write makerId.
C3_OneClaimSetsMakerId ==
    [][\A k \in 1..Len(updateDocCalls) :
          LET call == updateDocCalls[k]
              doc  == printlink_requests[call.requestId]
          IN  (/\ updateDocCalls' = RemoveAt(updateDocCalls, k)
               /\ call.currentStatus = "Pending"
               /\ doc.status = "In Progress"
               /\ doc.makerId # call.client)
              => /\ printlink_requests'[call.requestId].status = "In Progress"
                 /\ printlink_requests'[call.requestId].makerId = doc.makerId]_vars

\* C4: once a request is stored Complete no step changes the document: its
\* status, makerId and updatedAt keep their values.
C4_CompleteIsTerminal ==
    [][\A id \in Docs :
          printlink_requests[id].status = "Complete"
          => printlink_requests'[id] = printlink_requests[id]]_vars

\* C5: every updateDoc call that handleUpdateStatus issues writes the status
\* one step after the status passed to it (Pending gives In Progress,
\* In Progress gives Complete); passed any other status it issues no call,
\* changes no document and alerts nothing.
C5_AdvanceWritesOneStep ==
    [][/\ Len(updateDocCalls') > Len(updateDocCalls)
          => LET call == updateDocCalls'[Len(updateDocCalls')]
             IN  \/ call.currentStatus = "Pending" /\ call.data.status = "In Progress"
                 \/ call.currentStatus = "In Progress" /\ call.data.status = "Complete"
       /\ \A c \in Users, id \in Docs, s \in StatusInputs \ {"Pending", "In Progress"} :
             handleUpdateStatus(c, id, s)
             => UNCHANGED <<updateDocCalls, printlink_requests, alertMsg>>]_vars

C5_Witness ==
    \E k \in 1..Len(updateDocCalls) :
        /\ updateDocCalls[k].currentStatus = "In Progress"
        /\ updateDocCalls[k].data.status = "Complete"
        /\ printlink_requests[updateDocCalls[k].requestId].status = "Complete"

(* ---------------------- claims: the request form ----------------------- *)

\* What C8 counts as a form to reject.
C8_MustReject(data) ==
    \/ Trim(data.title) = ""
    \/ Trim(data.modelInput.value) = ""
    \/ Trim(data.material) = ""
    \/ Trim(data.urgencyDays) = ""
    \/ Trim(data.pickupLocation) = ""
    \/ data.quantity \in {"", "0"}
    \/ data.colors = <<>>
    \/ /\ data.priceRange.selectedRange = "Other"
       /\ (data.priceRange.min <= 0 \/ data.priceRange.max <= 0)
    \/ data.shippingOption = "Pickup" /\ data.pickupLocation = ""

\* C8: validateForm rejects a form exactly when a required text or select
\* field is empty, the quantity is empty or zero as the form stores it, no
\* colour is selected, an "Other" budget has min <= 0 or max <= 0, or Pickup
\* has no pickup location.
C8_ValidationRejectsExactly ==
    (validateForm(formData[Requester]) # NoError) <=> C8_MustReject(formData[Requester])

\* The calls of sequence after that are not in before: a handler appends.
NewCalls(before, after) ==
    {after[i] : i \in (Len(before) + 1)..Len(after)}

\* The last document of a collection.
Last(collection) == collection[Len(collection)]

\* A document as C6 wants it created for the user who submits.
C6_FreshFor(doc, uid) ==
    /\ doc.status = "Pending"
    /\ doc.requesterId = uid
    /\ uid # NULL
    /\ "makerId" \notin DOMAIN doc

\* C6: a submission that passes validation with a resolved identity hands
\* the store a document with status Pending, requesterId the identity of the
\* submitting user and no makerId, and that is the document the store creates.
C6_CreatedPendingForSubmitter ==
    [][/\ \A call \in NewCalls(requestCalls, requestCalls') :
             C6_FreshFor(call.data, userId[call.client])
       /\ \A call \in NewCalls(addDocCalls, addDocCalls') :
             C6_FreshFor(call.data, userId[call.client])
       /\ Len(printRequests') > Len(printRequests)
          => \E k \in 1..Len(requestCalls) :
                /\ Last(printRequests') = Commit(requestCalls[k].data, now)
                /\ C6_FreshFor(Last(printRequests'), requestCalls[k].data.requesterId)
       /\ Len(printlink_requests') > Len(printlink_requests)
          => \E k \in 1..Len(addDocCalls) :
                /\ Last(printlink_requests') = Commit(addDocCalls[k].data, now)
                /\ C6_FreshFor(Last(printlink_requests'), addDocCalls[k].data.requesterId)]_vars

C6_Witness ==
    /\ Len(printRequests) = 2
    /\ printRequests[1].requesterId # printRequests[2].requesterId
    /\ statusMessage[Requester][1] = "Success! Request ID "

\* C7: a submission that fails validation issues no create call and creates
\* no document, leaves the form data as entered, and shows the validation
\* error; the job queue's form, whose submit button is disabled while an
\* input is empty, issues no create call then.
C7_InvalidSubmitHasNoEffect ==
    [][/\ \A c \in Users :
             (/\ PrintRequestForm_handleSubmit(c)
              /\ userId[c] # NULL
              /\ validateForm(formData[c]) # NoError)
             => /\ requestCalls' = requestCalls
                /\ printRequests' = printRequests
                /\ formData' = formData
                /\ statusMessage'[c] = <<"Validation Error: ", validateForm(formData[c])>>
       /\ \A c \in Users :
             (title[c] = "" \/ pages[c] = "")
             => /\ \A call \in NewCalls(addDocCalls, addDocCalls') : call.client # c
                /\ RequestForm_handleSubmit(c) => printlink_requests' = printlink_requests]_vars

C7_Witness ==
    /\ statusMessage[Requester] = <<"Validation Error: ", <<"Quantity", " is required.">> >>
    /\ formData[Requester].title = "Bracket"
    /\ userId[Requester] # NULL
    /\ requestCalls = <<>>

\* The create calls of a form that await the store.
CallsOf(calls, c) == {k \in 1..Len(calls) : calls[k].client = c}

\* A step in which a submission of the request form succeeds: its create call
\* has settled and the form shows the success message.
C9_Succeeds ==
    /\ Len(requestCalls') = Len(requestCalls) - 1
    /\ \E c \in Users : /\ statusMessage[c] = <<"Submitting request...">>
                        /\ statusMessage'[c][1] = "Success! Request ID "

\* C9: an accepted submission issues one create call; a form has at most one
\* create call outstanding, whatever is submitted meanwhile; a collection
\* grows by exactly one document when a submission succeeds, and not otherwise.
C9_OneCreatePerSubmission ==
    [][/\ \A c \in Users : /\ Cardinality(CallsOf(requestCalls', c)) <= 1
                            /\ Cardinality(CallsOf(addDocCalls', c)) <= 1
       /\ Len(requestCalls') <= Len(requestCalls) + 1
       /\ Len(addDocCalls') <= Len(addDocCalls) + 1
       /\ IF C9_Succeeds
          THEN Len(printRequests') = Len(printRequests) + 1
          ELSE printRequests' = printRequests
       /\ printlink_requests' # printlink_requests
          => /\ Len(printlink_requests') = Len(printlink_requests) + 1
             /\ Len(addDocCalls') = Len(addDocCalls) - 1]_vars

C9_Witness ==
    /\ Len(printRequests) = 1
    /\ Len(requestCalls) = 1
    /\ isSubmitting[Requester]

(* ------------------------- claims: the offers -------------------------- *)

\* The prices of PriceInputs that are zero or negative, and the positive one
\* with its value in hundredths.
C10_NotPositive == {"0", "-5"}
C10_Positive == "12.50"
C10_PositiveValue == <<1250>>

\* The create calls for offers that await the store: whose they are and what
\* they write.
C10_Awaited(calls) ==
    [k \in 1..Len(calls) |->
        [client |-> calls[k].client, requestId |-> calls[k].requestId,
         data |-> calls[k].data]]

\* C10: submitting an offer whose price is zero or negative shows the
\* validation error, issues no create call and stores nothing; submitting one
\* whose price is positive, with an identity, issues one create call carrying
\* the maker's id and the price, and when it resolves exactly one offer, that
\* one, is appended under its request; no offer is stored any other way.
C10_OfferNeedsPositivePrice ==
    [][/\ \A c \in Users, id \in 1..MaxRequests :
             handleSubmitOffer(c, id)
             => IF offerForm[c][id].price \in C10_NotPositive
                THEN /\ offerForm'[c][id].status = <<"Error: Please enter a valid price.">>
                     /\ UNCHANGED <<offerCalls, offers>>
                ELSE /\ offerForm[c][id].price = C10_Positive
                     /\ userId[c] # NULL
                     /\ Len(offerCalls') = Len(offerCalls) + 1
                     /\ Last(offerCalls').requestId = id
                     /\ Last(offerCalls').data.makerId = userId[c]
                     /\ Last(offerCalls').data.price = C10_PositiveValue
                     /\ offers' = offers
       /\ offers' # offers
          => \E k \in 1..Len(offerCalls) :
                LET call == offerCalls[k]
                IN  /\ C10_Awaited(offerCalls') = C10_Awaited(RemoveAt(offerCalls, k))
                    /\ offers' = [offers EXCEPT ![call.requestId] =
                                     Append(@, Commit(call.data, now))]
                    /\ call.data.price = C10_PositiveValue
                    /\ call.data.makerId = userId[call.client]]_vars

C10_Witness ==
    \E c, d \in Users :
        /\ c # d
        /\ Len(offers[1]) = 1
        /\ offers[1][1].makerId = c
        /\ offers[1][1].price = C10_PositiveValue
        /\ 1 \in DOMAIN offerForm[d]
        /\ offerForm[d][1].price \in C10_NotPositive
        /\ offerForm[d][1].status = <<"Error: Please enter a valid price.">>

\* C11: a step that submits an offer, stores it or reports its failure
\* leaves every request document as it was: status, requesterId and all other
\* fields, and no makerId appears.
C11_OfferLeavesRequestUnchanged ==
    [][(offerCalls' # offerCalls \/ offers' # offers \/ offerForm' # offerForm)
       => printRequests' = printRequests]_vars

C11_Witness ==
    /\ Len(offers[1]) >= 1
    /\ printRequests[1].status = "Pending"
    /\ "makerId" \notin DOMAIN printRequests[1]
    /\ \E c \in Users :
          /\ 1 \in DOMAIN offerForm[c]
          /\ offerForm[c][1].status = <<"Error: Failed to submit offer. ", "store error">>

Entries(list) == {list[i] : i \in 1..Len(list)}

\* C13: every request a maker view shows is Pending and was created by
\* another user than the viewer; this of the job queue's list (RequestList,
\* "Maker View") and of the marketplace's MakerDashboard.
C13_MakerViewShowsOpenRequestsOfOthers ==
    \A c \in Users :
        /\ ~loading[c] =>
              \A req \in Entries(requests[c]) :
                  req.status = "Pending" /\ req.requesterId # userId[c]
        /\ ~makerLoading[c] =>
              \A req \in Entries(makerRequests[c]) :
                  req.status = "Pending" /\ req.requesterId # userId[c]

\* C14: a maker view lists its requests oldest first: of two requests shown,
\* the one stored with the earlier creation time stands before the other.
C14_MakerViewOldestFirst ==
    \A c \in Users :
        /\ ~loading[c] =>
              \A i, j \in 1..Len(requests[c]) :
                  i < j => printlink_requests[requests[c][i].id].createdAt
                              <= printlink_requests[requests[c][j].id].createdAt
        /\ ~makerLoading[c] =>
              \A i, j \in 1..Len(makerRequests[c]) :
                  i < j => printRequests[makerRequests[c][i].id].timestamp
                              <= printRequests[makerRequests[c][j].id].timestamp

\* C15: the requester view of a user shows only requests that user created,
\* newest first: of two requests shown, the one stored with the later
\* creation time stands before the other.
C15_RequesterViewNewestFirst ==
    \A c \in Users :
        ~requesterLoading[c] =>
            /\ \A req \in Entries(requesterRequests[c]) : req.requesterId = userId[c]
            /\ \A i, j \in 1..Len(requesterRequests[c]) :
                  i < j => printRequests[requesterRequests[c][i].id].timestamp
                              >= printRequests[requesterRequests[c][j].id].timestamp

\* The offers an entry carries are exactly those stored under its request.
C16_AllStoredOffers(entry) ==
    /\ Len(entry.offers) = Len(offers[entry.id])
    /\ \A j \in 1..Len(entry.offers) :
          /\ entry.offers[j].id = j
          /\ \A f \in DOMAIN offers[entry.id][j] :
                entry.offers[j][f] = offers[entry.id][j][f]

\* The callback `job` ends in this step with `view` as its result.
C16_Publishes(job, view) ==
    LET n == Len(job.fetchedRequests)
    IN  /\ n + 1 = Len(job.docs)
        /\ {req.id : req \in Entries(view)} = {doc.id : doc \in Entries(job.docs)}
        /\ Len(view) = Len(job.docs)
        /\ \A req \in Entries(view) :
              IF req.id = job.docs[n + 1].id
              THEN C16_AllStoredOffers(req)
              ELSE \E i \in 1..n : /\ job.fetchedRequests[i].id = req.id
                                   /\ job.fetchedRequests[i].offers = req.offers

C17_Subscriptions(c) == {i \in 1..Len(listeners) : listeners[i].client = c}

\* C17: a client's view holds at most one live listener on requests, the one
\* of the identity and the view it has now; a callback of a list that has been
\* unmounted holds no listener on offers, that is, none is left at an await.
C17_OneLiveSubscription ==
    /\ \A c \in Users : Cardinality(C17_Subscriptions(c)) <= 1
    /\ \A i \in 1..Len(listeners) :
          /\ listeners[i].uid = userId[listeners[i].client]
          /\ listeners[i].view = IF app = "PrintLink.jsx" THEN "queue"
                                 ELSE viewMode[listeners[i].client]
    /\ \A k \in 1..Len(snapshotJobs) : snapshotJobs[k].alive

\* What the callbacks that lost their listener have fetched so far.
C18_Unsubscribed(jobs) ==
    {[client |-> jobs[k].client, docs |-> jobs[k].docs,
      fetchedRequests |-> jobs[k].fetchedRequests] :
        k \in {i \in 1..Len(jobs) : ~jobs[i].current}}

\* C18: after a list's listener has been unsubscribed, its callbacks do
\* nothing more: one that was at an await stays where it was, and the list is
\* set only by a callback whose listener is still subscribed.
C18_NoCallbackAfterUnsubscribe ==
    [][/\ C18_Unsubscribed(snapshotJobs) \subseteq C18_Unsubscribed(snapshotJobs')
       /\ \A c \in Users :
             /\ (requesterRequests'[c] # requesterRequests[c]
                    /\ requesterRequests'[c] # <<>>)
                => \E k \in 1..Len(snapshotJobs) :
                      snapshotJobs[k].client = c /\ snapshotJobs[k].current
             /\ requests'[c] # requests[c] => Listening(c, "queue")
      ]_vars

\* The create and update calls a client has issued that await the store.
C19_Issued(c) ==
    Cardinality(CallsOf(addDocCalls, c)) + Cardinality(CallsOf(updateDocCalls, c))
        + Cardinality(CallsOf(requestCalls, c)) + Cardinality(CallsOf(offerCalls, c))

\* Every stored request names its requester, every stored offer and every
\* request a maker has taken names its maker.
C19_StoredWithIdentity ==
    /\ \A id \in 1..Len(printlink_requests) :
          /\ printlink_requests[id].requesterId # NULL
          /\ "makerId" \in DOMAIN printlink_requests[id]
                => printlink_requests[id].makerId # NULL
    /\ \A id \in 1..Len(printRequests) :
          /\ printRequests[id].requesterId # NULL
          /\ \A j \in 1..Len(offers[id]) : offers[id][j].makerId # NULL

\* C19: a session without identity (userId null) issues no create and no
\* update call, whatever handler runs, and the store holds no request without
\* requesterId and no offer or taken request without makerId.
C19_NoWriteWithoutIdentity ==
    [][/\ \A c \in Users : userId[c] = NULL => C19_Issued(c)' <= C19_Issued(c)
       /\ C19_StoredWithIdentity /\ C19_StoredWithIdentity'
      ]_vars

\* A session without identity has submitted a form that passes validation and
\* was told that authentication is not ready; no call of it awaits the store.
C19_Witness ==
    \E c \in Users :
        /\ userId[c] = NULL
        /\ C19_Issued(c) = 0
        /\ formData[c] = FilledForm
        /\ statusMessage[c] = <<"Error: Authentication not ready.">>

\* The create and update calls that await the store.
C20_Attempts ==
    Len(addDocCalls) + Len(updateDocCalls) + Len(requestCalls) + Len(offerCalls)

\* The three collections.
C20_Store == <<printlink_requests, printRequests, offers>>

\* What the client of a failed call is shown: the alert of the job queue, the
\* status message of the request form, the status of the offer form.
C20_Alerted(c, text) == alertMsg' = <<c, text>>

C20_RequestFormSays(c) == statusMessage'[c] = <<"Submission Failed: ", "store error">>

C20_OfferFormSays(c, id) ==
    /\ id \in DOMAIN offerForm'[c]
    /\ offerForm'[c][id].status = <<"Error: Failed to submit offer. ", "store error">>

\* C20: a step issues at most one create or update call; the store changes
\* only as one awaited call settles; when a call settles and the store has not
\* taken its write, no call is issued in that step and its client is shown
\* the failure.
C20_FailureSurfacedNoRetry ==
    [][/\ C20_Attempts' <= C20_Attempts + 1
       /\ C20_Store' # C20_Store => C20_Attempts' = C20_Attempts - 1
       /\ C20_Store' = C20_Store =>
             /\ \A k \in 1..Len(addDocCalls) :
                   addDocCalls' = RemoveAt(addDocCalls, k)
                   => /\ C20_Attempts' = C20_Attempts - 1
                      /\ C20_Alerted(addDocCalls[k].client, "Failed to submit request")
             /\ \A k \in 1..Len(updateDocCalls) :
                   (/\ updateDocCalls' = RemoveAt(updateDocCalls, k)
                    /\ Merge(printlink_requests[updateDocCalls[k].requestId],
                             Commit(updateDocCalls[k].data, now))
                          # printlink_requests[updateDocCalls[k].requestId])
                   => /\ C20_Attempts' = C20_Attempts - 1
                      /\ C20_Alerted(updateDocCalls[k].client, "Failed to update status")
             /\ \A k \in 1..Len(requestCalls) :
                   requestCalls' = RemoveAt(requestCalls, k)
                   => /\ C20_Attempts' = C20_Attempts - 1
                      /\ C20_RequestFormSays(requestCalls[k].client)
             /\ \A k \in 1..Len(offerCalls) :
                   offerCalls' = RemoveAt(offerCalls, k)
                   => /\ C20_Attempts' = C20_Attempts - 1
                      /\ C20_OfferFormSays(offerCalls[k].client, offerCalls[k].requestId)
      ]_vars

\* C21: no step removes a stored request or a stored offer; a stored offer
\* keeps every field, a stored request its requesterId.
C21_StoreOnlyGrows ==
    [][/\ Len(printlink_requests') >= Len(printlink_requests)
       /\ \A id \in 1..Len(printlink_requests) :
             printlink_requests'[id].requesterId = printlink_requests[id].requesterId
       /\ Len(printRequests') >= Len(printRequests)
       /\ \A id \in 1..Len(printRequests) :
             /\ printRequests'[id].requesterId = printRequests[id].requesterId
             /\ Len(offers'[id]) >= Len(offers[id])
             /\ SubSeq(offers'[id], 1, Len(offers[id])) = offers[id]
      ]_vars

\* The job queue holds a request of u2 that u1 has advanced to Complete, and a
\* request submitted since.
C21_Witness ==
    /\ Len(printlink_requests) = MaxRequests
    /\ printlink_requests[1].requesterId = "u2"
    /\ printlink_requests[1].status = "Complete"
    /\ printlink_requests[1].makerId = "u1"

\* C22: a stored request carries a makerId exactly if its status is not
\* Pending, and the makerId is the identity of a user.
C22_MakerIdIffClaimed ==
    /\ \A id \in 1..Len(printlink_requests) :
          /\ "makerId" \in DOMAIN printlink_requests[id]
                <=> printlink_requests[id].status # "Pending"
          /\ "makerId" \in DOMAIN printlink_requests[id]
                => printlink_requests[id].makerId \in Users
    /\ \A id \in 1..Len(printRequests) :
          /\ "makerId" \in DOMAIN printRequests[id]
                <=> printRequests[id].status # "Pending"
          /\ "makerId" \in DOMAIN printRequests[id]
                => printRequests[id].makerId \in Users

\* The job queue holds a request in progress, taken by u1, and a Pending one
\* that nobody has taken.
C22_Witness ==
    /\ Len(printlink_requests) = MaxRequests
    /\ printlink_requests[1].status = "In Progress"
    /\ printlink_requests[1].makerId = "u1"
    /\ printlink_requests[2].status = "Pending"
    /\ "makerId" \notin DOMAIN printlink_requests[2]

\* C23: every stored request has priceRange.min <= priceRange.max.
C23_BudgetMinBelowMax ==
    \A id \in 1..Len(printRequests) :
        printRequests[id].priceRange.min <= printRequests[id].priceRange.max

\* The maker has an offer stored under the request.
C24_HasOffer(maker, id) ==
    \E j \in 1..Len(offers[id]) : offers[id][j].makerId = maker

\* C24: a maker who has an offer stored under a request and submits another
\* valid one issues a create call for it like for the first; when the store
\* takes a further offer of a maker, it is appended as a new document and the
\* offers stored before stay as they are.
C24_RepeatedOffersAppend ==
    [][/\ \A c \in Users, id \in 1..Len(printRequests) :
             (/\ handleSubmitOffer(c, id)
              /\ C24_HasOffer(userId[c], id)
              /\ offerForm[c][id].price = C10_Positive)
             => /\ Len(offerCalls') = Len(offerCalls) + 1
                /\ Last(offerCalls').requestId = id
                /\ Last(offerCalls').data.makerId = userId[c]
       /\ \A k \in 1..Len(offerCalls) :
             (/\ offers' # offers
              /\ C10_Awaited(offerCalls') = C10_Awaited(RemoveAt(offerCalls, k))
              /\ C24_HasOffer(offerCalls[k].data.makerId, offerCalls[k].requestId))
             => offers' = [offers EXCEPT ![offerCalls[k].requestId] =
                              Append(@, Commit(offerCalls[k].data, now))]
      ]_vars

\* Two offers of the same maker are stored under one request.
C24_Witness ==
    /\ Len(offers) >= 1
    /\ Len(offers[1]) = 2
    /\ offers[1][1].makerId = offers[1][2].makerId

\* C25: a step that registers a listener on requests, starts a callback that
\* listens on offers, or issues a create or update call does so for a client
\* with an identity: the one the listener is registered for, the one the
\* client has when the callback starts or the call is issued.
C25_IdentityBeforeStoreUse ==
    [][/\ \A l \in Entries(listeners') \ Entries(listeners) :
             /\ l.uid # NULL
             /\ l.uid = userId'[l.client]
       /\ \A k \in (Len(snapshotJobs) + 1)..Len(snapshotJobs') :
             userId[snapshotJobs'[k].client] # NULL
       /\ \A c \in Users : C19_Issued(c)' > C19_Issued(c) => userId[c] # NULL
      ]_vars

\* u1 has got its identity, listens on its requests and has stored one, while
\* u2 is still without identity and without listener.
C25_Witness ==
    /\ userId["u1"] = "u1"
    /\ Listening("u1", "requester")
    /\ Len(printRequests) = MaxRequests
    /\ printRequests[MaxRequests].requesterId = "u1"
    /\ userId["u2"] = NULL
    /\ \A l \in Entries(listeners) : l.client # "u2"

\* Start-up. Each App has mounted and shows its spinner: the listener of
\* onAuthStateChanged is registered and its first event is due, the first
\* sign-in call (with the initial token if the page was given one,
\* anonymous otherwise) is outstanding. The provider may reject any sign-in.
Origins == {"attempt", "fallback", "callback"}

StartingSessions ==
    {[isAuthReady |-> FALSE, delivered |-> FALSE, token |-> t,
      currentUser |-> NULL, pending |-> TRUE, calls |-> {"attempt"}] : t \in BOOLEAN}

InitAuth ==
    /\ app \in {"PrintLink.jsx", "part_000"}
    /\ now = 0
    /\ userId = [c \in Users |-> NULL]
    /\ auth \in [Users -> StartingSessions]
    /\ QueueIdle
    /\ MarketIdle
    /\ listeners = <<>>

NextAuth ==
    \/ \E c \in Users :
          QueueRuns /\ auth[c].pending /\ AuthStateChanged(c, auth[c].currentUser)
    \/ \E c \in Users :
          /\ MarketRuns
          /\ auth[c].pending
          /\ auth[c].currentUser # NULL
          /\ useFirebase_onUser(c, auth[c].currentUser)
    \/ \E c \in Users :
          /\ MarketRuns
          /\ auth[c].pending
          /\ auth[c].currentUser = NULL
          /\ useFirebase_onNoUser(c)
    \/ \E c \in Users, origin \in Origins : signInResolved(c, origin, c)
    \/ \E c \in Users, origin \in Origins : signInRejected(c, origin)

SpecAuth == InitAuth /\ [][NextAuth]_vars

\* The provider delivers every event that is due and settles every sign-in
\* call, one way or the other.
AuthEvent(c) ==
    /\ auth[c].pending
    /\ IF QueueRuns THEN AuthStateChanged(c, auth[c].currentUser)
       ELSE IF auth[c].currentUser # NULL
            THEN useFirebase_onUser(c, auth[c].currentUser)
            ELSE useFirebase_onNoUser(c)

signInSettled(c, origin) ==
    signInResolved(c, origin, c) \/ signInRejected(c, origin)

SpecAuthFair ==
    /\ SpecAuth
    /\ \A c \in Users : WF_vars(AuthEvent(c))
    /\ \A c \in Users, origin \in Origins : WF_vars(signInSettled(c, origin))

\* C26: once the identity provider has delivered its first auth-state event
\* to a client, that client's isAuthReady eventually becomes true, and once
\* true it stays true, whether the sign-in succeeded or failed.
C26_AuthReadiness ==
    /\ \A c \in Users : auth[c].delivered ~> auth[c].isAuthReady
    /\ [][\A c \in Users : auth[c].isAuthReady => auth'[c].isAuthReady]_vars

\* The callbacks of one subscription of a client's RequesterRequestsList that
\* are at an await and were started by snapshots delivered before that of
\* callback j.
C27_EarlierPending(j) ==
    {k \in 1..(j - 1) : /\ snapshotJobs[k].client = snapshotJobs[j].client
                        /\ snapshotJobs[k].alive
                        /\ snapshotJobs[k].current}

\* C27: of two parent snapshots delivered one after the other to a requester
\* view, the list the view ends up showing is the one built from the later:
\* the callback of the later snapshot never sets the list while the callback
\* of the earlier one is still at an await, which would finish last and
\* overwrite it.
C27_LaterSnapshotWins ==
    [][\A j \in 1..Len(snapshotJobs) :
          (/\ OffersSnapshot(j)
           /\ Len(snapshotJobs') < Len(snapshotJobs)
           /\ snapshotJobs[j].alive
           /\ snapshotJobs[j].current)
          => C27_EarlierPending(j) = {}
      ]_vars

\* The create calls outstanding that the mounted form of each kind has made.
C28_Saving(c) == {k \in 1..Len(addDocCalls) : addDocCalls[k].client = c}

C28_Submitting(c) ==
    {k \in 1..Len(requestCalls) : requestCalls[k].client = c /\ requestCalls[k].mounted}

C28_Offering(c, id) ==
    {k \in 1..Len(offerCalls) : /\ offerCalls[k].client = c
                                /\ offerCalls[k].requestId = id
                                /\ offerCalls[k].mounted}

\* The in-flight flag of every mounted form is true exactly while a create
\* call of that form is outstanding.
C28_FlagWhileOutstanding ==
    \A c \in Users :
        /\ isSaving[c] <=> C28_Saving(c) # {}
        /\ isSubmitting[c] <=> C28_Submitting(c) # {}
        /\ \A id \in DOMAIN offerForm[c] :
              offerForm[c][id].isSubmitting <=> C28_Offering(c, id) # {}

\* C28: the in-flight flag of a form (isSaving, isSubmitting) is true exactly
\* while the create call of that form is outstanding, and is false again
\* when the call has settled, resolved or rejected; a mounted form's data is
\* reset to its initial value when its call resolves and is kept as entered
\* when its call rejects.
C28_InFlightFlagAndReset ==
    [][/\ C28_FlagWhileOutstanding'
       /\ \A k \in 1..Len(addDocCalls) :
             LET c == addDocCalls[k].client
             IN  /\ addDocResolved(k) => title'[c] = "" /\ pages'[c] = "" /\ ~isSaving'[c]
                 /\ addDocRejected(k) =>
                        title'[c] = title[c] /\ pages'[c] = pages[c] /\ ~isSaving'[c]
       /\ \A k \in 1..Len(requestCalls) :
             LET c == requestCalls[k].client
             IN  requestCalls[k].mounted =>
                    /\ requestCallResolved(k) =>
                           formData'[c] = INITIAL_FORM_DATA /\ ~isSubmitting'[c]
                    /\ requestCallRejected(k) =>
                           formData'[c] = formData[c] /\ ~isSubmitting'[c]
       /\ \A k \in 1..Len(offerCalls) :
             LET c  == offerCalls[k].client
                 id == offerCalls[k].requestId
             IN  StillMounted(offerCalls[k]) =>
                    /\ offerCallResolved(k) => offerForm'[c] = NoForms
                    /\ offerCallRejected(k) =>
                           /\ offerForm'[c][id].price = offerForm[c][id].price
                           /\ offerForm'[c][id].message = offerForm[c][id].message
                           /\ ~offerForm'[c][id].isSubmitting
      ]_vars

\* A create call of the request form has been rejected: the form is idle
\* again and holds what was entered.
C28_Witness ==
    \/ /\ app = "part_000"
       /\ statusMessage[Requester] = <<"Submission Failed: ", "store error">>
       /\ ~isSubmitting[Requester]
       /\ formData[Requester] = FilledForm
    \/ /\ app = "PrintLink.jsx"
       /\ alertMsg = <<Requester, "Failed to submit request">>
       /\ ~isSaving[Requester]
       /\ title[Requester] = "Report"

\* A listener the store has ended with an error.
Ended(ls, c, view) ==
    SelectSeq(ls, LAMBDA l : ~(l.client = c /\ l.view = view))

\* The error callback of RequestList's onSnapshot: setLoading(false).
SnapshotError(c) ==
    /\ Listening(c, "queue")
    /\ listeners' = Ended(listeners, c, "queue")
    /\ loading' = [loading EXCEPT ![c] = FALSE]
    /\ UNCHANGED <<app, auth, marketVars, now, printlink_requests, userId, formVars,
                   requests, updateDocCalls, alertMsg>>

\* The error callback of RequesterRequestsList's onSnapshot: setLoading(false).
\* Callbacks of earlier snapshots that are at an await go on.
RequesterSnapshotError(c) ==
    /\ Listening(c, "requester")
    /\ listeners' = Ended(listeners, c, "requester")
    /\ requesterLoading' = [requesterLoading EXCEPT ![c] = FALSE]
    /\ UNCHANGED <<app, auth, now, userId, queueVars, viewMode, printRequests, offers,
                   requestVars, makerVars, requesterRequests, snapshotJobs>>

\* The error callback of MakerDashboard's onSnapshot: setLoading(false); the
\* dashboard renders the forms of the requests it holds.
MakerSnapshotError(c) ==
    /\ Listening(c, "maker")
    /\ listeners' = Ended(listeners, c, "maker")
    /\ makerLoading' = [makerLoading EXCEPT ![c] = FALSE]
    /\ LET ids == {makerRequests[c][i].id : i \in 1..Len(makerRequests[c])}
       IN  offerForm' = [offerForm EXCEPT ![c] =
                            [id \in ids |-> IF id \in DOMAIN offerForm[c]
                                            THEN offerForm[c][id] ELSE NewOfferForm]]
    /\ UNCHANGED <<app, auth, now, userId, queueVars, viewMode, printRequests, offers,
                   requestVars, requesterVars, makerRequests, offersMade, offerCalls>>

\* Lists loading. Every session is signed in and may change its identity; on
\* the marketplace u1 shows its requests and u2 the maker's dashboard. The
\* store delivers snapshots, or ends a listener with an error.
InitLoading ==
    /\ app \in {"PrintLink.jsx", "part_000"}
    /\ now = 0
    /\ userId = [c \in Users |-> c]
    /\ IF app = "PrintLink.jsx"
       THEN /\ \E reqs \in InitialQueues : QueueShowing(reqs)
            /\ MarketIdle
       ELSE /\ QueueIdle
            /\ \E reqs \in [1..MaxRequests -> {OpenRequest(uid) : uid \in Users}] :
                  MarketShowing(reqs,
                                [c \in Users |-> IF c = Requester THEN "requester"
                                                                  ELSE "maker"],
                                EmptyForms)
    /\ listeners = MountedListeners
    /\ auth = AuthSettled

NextLoading ==
    \/ \E c \in Users, user \in Users :
          QueueRuns /\ user # userId[c] /\ AuthStateChanged(c, user)
    \/ \E c \in Users : QueueRuns /\ Snapshot(c)
    \/ \E c \in Users : QueueRuns /\ SnapshotError(c)
    \/ \E c \in Users, uid \in Users :
          MarketRuns /\ uid # userId[c] /\ useFirebase_onUser(c, uid)
    \/ \E c \in Users : MarketRuns /\ RequesterSnapshot(c)
    \/ \E k \in 1..MaxJobs : MarketRuns /\ OffersSnapshot(k)
    \/ \E c \in Users : MarketRuns /\ RequesterSnapshotError(c)
    \/ \E c \in Users : MarketRuns /\ MakerSnapshot(c)
    \/ \E c \in Users : MarketRuns /\ MakerSnapshotError(c)

SpecLoading == InitLoading /\ [][NextLoading]_vars

\* Fair delivery of store events: a listener that is registered gets its
\* snapshot, the offers listener of a callback at its await gets its first
\* result.
SpecLoadingFair ==
    /\ SpecLoading
    /\ \A c \in Users : /\ WF_vars(Snapshot(c))
                        /\ WF_vars(RequesterSnapshot(c))
                        /\ WF_vars(MakerSnapshot(c))
    /\ \A k \in 1..MaxJobs : WF_vars(OffersSnapshot(k))

\* The loading flag of the list a client shows.
C29_Loading(c) ==
    IF app = "PrintLink.jsx" THEN loading[c]
    ELSE IF viewMode[c] = "requester" THEN requesterLoading[c] ELSE makerLoading[c]

C29_View(c) == IF app = "PrintLink.jsx" THEN "queue" ELSE viewMode[c]

\* The step ends the callback of a snapshot delivered to the subscription the
\* client's list holds, the offers of every request of the snapshot fetched.
C29_FetchedAll(c) ==
    \/ RequesterSnapshot(c) /\ requesterDocs(requesterListener(c).uid) = <<>>
    \/ \E k \in 1..Len(snapshotJobs) :
          /\ OffersSnapshot(k)
          /\ snapshotJobs[k].client = c
          /\ snapshotJobs[k].current
          /\ Len(snapshotJobs[k].fetchedRequests) + 1 = Len(snapshotJobs[k].docs)

\* C29: under fair delivery of store events a list that has subscribed
\* eventually leaves its loading state; the loading flag becomes false by
\* the first snapshot of the list's subscription or by a subscription error,
\* and in the requester view not before the offers of every request of that
\* snapshot have been fetched.
C29_LoadingEnds ==
    /\ \A c \in Users :
          (Listening(c, C29_View(c)) /\ C29_Loading(c)) ~> ~C29_Loading(c)
    /\ [][\A c \in Users :
             /\ (loading[c] /\ ~loading'[c]) => (Snapshot(c) \/ SnapshotError(c))
             /\ (makerLoading[c] /\ ~makerLoading'[c])
                   => (MakerSnapshot(c) \/ MakerSnapshotError(c))
             /\ (requesterLoading[c] /\ ~requesterLoading'[c])
                   => (C29_FetchedAll(c) \/ RequesterSnapshotError(c))
         ]_vars

====
